---- MODULE Spec2Model ----
(***************************************************************************)
(* A model of the left-leaning red-black tree of src/source/s21_tree.h    *)
(* (class LLRBTree) and of the set / map views built on it.                *)
(*                                                                         *)
(* The heap is a function from node addresses to TreeNode records; every   *)
(* member function of LLRBTree is an operator that takes the "world" (the  *)
(* heap plus the root_, null_node_ and tree_size_ members of each tree     *)
(* object) and returns the world after the call.  A dereference of a null  *)
(* or uninitialised pointer stops the call with fault = "nullptr", a walk  *)
(* that can only be explained by a cycle in the links with fault = "loop". *)
(***************************************************************************)
EXTENDS Integers, Sequences, FiniteSets, TLC

\* ------------------------------------------------------------------ bounds
MaxKey == 6          \* a set holds keys 1..MaxKey
MaxMapKey == 3       \* a map holds keys 1..MaxMapKey
MaxVal == 1          \* mapped values are 0..MaxVal, 0 being mapped_type{}
MaxMergeKey == 5    \* two sets that are merged hold keys 1..MaxMergeKey
MaxCopyKey == 4     \* sets that are copied, moved or only read hold keys 1..MaxCopyKey
MaxAscKey == 7      \* keys 1..MaxAscKey are inserted in ascending order
MaxCap == 4         \* a vector is grown to a capacity of at most MaxCap

Keys == 1..MaxKey
MapKeys == 1..MaxMapKey
Vals == 0..MaxVal
MergeKeys == 1..MaxMergeKey
CopyKeys == 1..MaxCopyKey
AscKeys == 1..MaxAscKey
Trees == {"A", "B"}
Containers == {"a", "b"}
\* Addresses: every tree holds at most MaxKey nodes and one sentinel; Clear and
\* Merge allocate before the nodes they drop are out of sight.
MaxNodes == 2 * MaxKey + 4
Nodes == 1..MaxNodes
Fuel == 4 * MaxNodes \* more steps than any walk over acyclic links can take

NULL == 0            \* nullptr
UNINIT == 0 - 1      \* a pointer member that was never assigned
BLACK == 0
RED == 1

VARIABLES
  view,        \* the adapter that owns the trees: "set" (s21::set) or "map" (s21::map)
  heap,        \* the TreeNode at every address
  root_, null_node_, tree_size_,   \* the members of each LLRBTree object
  tree_ptr_,   \* the LLRBTree object each container points to
  fault,       \* "none" while every call so far has returned
  last,        \* the last call: its name, arguments and result
  pre,         \* the world the last call started from
  data_, size_, capacity_   \* the members of a vector<int>

vars == <<view, heap, root_, null_node_, tree_size_, tree_ptr_, fault, last, pre,
          data_, size_, capacity_>>

\* ------------------------------------------------------------ node store
\* key_type is int for the set view and std::pair<Key, Type> for the map view;
\* a set element k is held as <<k, 0>>, so that operator< below is the int
\* order on sets and the lexicographic pair order on maps.
NoData == <<0, 0>>

FreeNode == [data |-> NoData, parent |-> NULL, left |-> NULL, right |-> NULL,
             color |-> BLACK, used |-> FALSE]

\* new TreeNode for a sentinel: left, right and color are set, parent and data
\* are not.
SentinelNode == [data |-> NoData, parent |-> UNINIT, left |-> NULL, right |-> NULL,
                 color |-> BLACK, used |-> TRUE]

Less(a, b) == a[1] < b[1] \/ (a[1] = b[1] /\ a[2] < b[2])

World == [heap |-> heap, root |-> root_, null |-> null_node_, size |-> tree_size_,
          fault |-> fault]

Deref(p) == p \in Nodes

Fault(w, f) == IF w.fault = "none" THEN [w EXCEPT !.fault = f] ELSE w

\* p->left = v and the like; a store through a null pointer is a fault.
SetLeft(w, n, v) ==
  IF w.fault # "none" THEN w
  ELSE IF Deref(n) THEN [w EXCEPT !.heap[n].left = v] ELSE Fault(w, "nullptr")
SetRight(w, n, v) ==
  IF w.fault # "none" THEN w
  ELSE IF Deref(n) THEN [w EXCEPT !.heap[n].right = v] ELSE Fault(w, "nullptr")
SetParent(w, n, v) ==
  IF w.fault # "none" THEN w
  ELSE IF Deref(n) THEN [w EXCEPT !.heap[n].parent = v] ELSE Fault(w, "nullptr")
SetColor(w, n, v) ==
  IF w.fault # "none" THEN w
  ELSE IF Deref(n) THEN [w EXCEPT !.heap[n].color = v] ELSE Fault(w, "nullptr")
\* p->left, p->right, p->parent, p->color read through a pointer that may be
\* null: the value, or TRAP when p cannot be dereferenced.
TRAP == 0 - 2
Left(w, p) == IF Deref(p) THEN w.heap[p].left ELSE TRAP
Right(w, p) == IF Deref(p) THEN w.heap[p].right ELSE TRAP
Parent(w, p) == IF Deref(p) THEN w.heap[p].parent ELSE TRAP
Color(w, p) == IF Deref(p) THEN w.heap[p].color ELSE TRAP

\* operator new: the lowest address not in use.
NewAddr(w) == CHOOSE n \in Nodes : ~w.heap[n].used /\ \A m \in Nodes : m < n => w.heap[m].used

\* ------------------------------------------------------------- rotations
\* TreeNode *RotateLeft(TreeNode *node); the value returned is node->right as
\* it was at the call (RotateLeftRet).
RotateLeftRet(w, node) == Right(w, node)

\* "change pointers to and from parent" of both rotations: node->parent's link
\* to node, or root_, becomes tmp_node.
Reparent(w, t, node, tmp_node) ==
  IF w.fault # "none" THEN w
  ELSE IF w.heap[node].parent = NULL THEN [w EXCEPT !.root[t] = tmp_node]
  ELSE IF ~Deref(w.heap[node].parent) THEN Fault(w, "nullptr")
  ELSE IF w.heap[w.heap[node].parent].left = node
    THEN SetLeft(w, w.heap[node].parent, tmp_node)
  ELSE SetRight(w, w.heap[node].parent, tmp_node)

\* A left rotation that exchanges the data of node and node->right and leaves
\* the links as they are.
RotateLeftMovesData(w, t, node) ==
  IF w.fault # "none" THEN w
  ELSE IF ~Deref(node) \/ ~Deref(Right(w, node)) THEN Fault(w, "nullptr")
  ELSE [w EXCEPT !.heap[node].data = w.heap[w.heap[node].right].data,
                 !.heap[w.heap[node].right].data = w.heap[node].data]

\* A left rotation that links the nodes and leaves both colours as they were.
RotateLeftKeepsColours(w, t, node) ==
  IF w.fault # "none" THEN w
  ELSE IF ~Deref(node) \/ ~Deref(Right(w, node)) THEN Fault(w, "nullptr")
  ELSE
    LET tmp_node == w.heap[node].right
        S1(x) == SetRight(x, node, x.heap[tmp_node].left)
        S2(x) == SetLeft(x, tmp_node, node)
        S3(x) == Reparent(x, t, node, tmp_node)
        S4(x) == SetParent(x, tmp_node, x.heap[node].parent)
        S5(x) == SetParent(x, node, tmp_node)
        S8(x) == IF x.heap[node].right # x.null[t]
                 THEN SetParent(x, x.heap[node].right, node)
                 ELSE x
    IN S8(S5(S4(S3(S2(S1(w))))))

RotateLeft(w, t, node) ==
  IF w.fault # "none" THEN w
  ELSE IF ~Deref(node) \/ ~Deref(Right(w, node)) THEN Fault(w, "nullptr")
  ELSE
    LET tmp_node == w.heap[node].right
        S1(x) == SetRight(x, node, x.heap[tmp_node].left)
        S2(x) == SetLeft(x, tmp_node, node)
        S3(x) == Reparent(x, t, node, tmp_node)
        S4(x) == SetParent(x, tmp_node, x.heap[node].parent)
        S5(x) == SetParent(x, node, tmp_node)
        S6(x) == SetColor(x, tmp_node, x.heap[node].color)
        S7(x) == SetColor(x, node, RED)
        S8(x) == IF x.heap[node].right # x.null[t]
                 THEN SetParent(x, x.heap[node].right, node)
                 ELSE x
    IN S8(S7(S6(S5(S4(S3(S2(S1(w))))))))

\* A right rotation that leaves the parent link of the subtree it moves below
\* node as it was.
RotateRightStaleParent(w, t, node) ==
  IF w.fault # "none" THEN w
  ELSE IF ~Deref(node) \/ ~Deref(Left(w, node)) THEN Fault(w, "nullptr")
  ELSE
    LET tmp_node == w.heap[node].left
        S1(x) == SetLeft(x, node, x.heap[tmp_node].right)
        S2(x) == SetRight(x, tmp_node, node)
        S3(x) == Reparent(x, t, node, tmp_node)
        S4(x) == SetParent(x, tmp_node, x.heap[node].parent)
        S5(x) == SetParent(x, node, tmp_node)
        S7(x) == SetColor(x, tmp_node, x.heap[node].color)
        S8(x) == SetColor(x, node, RED)
    IN S8(S7(S5(S4(S3(S2(S1(w)))))))

RotateRightRet(w, node) == Left(w, node)

RotateRight(w, t, node) ==
  IF w.fault # "none" THEN w
  ELSE IF ~Deref(node) \/ ~Deref(Left(w, node)) THEN Fault(w, "nullptr")
  ELSE
    LET tmp_node == w.heap[node].left
        S1(x) == SetLeft(x, node, x.heap[tmp_node].right)
        S2(x) == SetRight(x, tmp_node, node)
        S3(x) == Reparent(x, t, node, tmp_node)
        S4(x) == SetParent(x, tmp_node, x.heap[node].parent)
        S5(x) == SetParent(x, node, tmp_node)
        S6(x) == IF x.heap[node].left # x.null[t]
                 THEN SetParent(x, x.heap[node].left, node)
                 ELSE x
        S7(x) == SetColor(x, tmp_node, x.heap[node].color)
        S8(x) == SetColor(x, node, RED)
    IN S8(S7(S6(S5(S4(S3(S2(S1(w))))))))

\* FlipColors without the test for the root: the node is always made red.
FlipColorsAlwaysRed(w, t, node) ==
  IF w.fault # "none" THEN w
  ELSE IF ~Deref(node) THEN Fault(w, "nullptr")
  ELSE SetColor(SetColor(SetColor(w, node, RED), w.heap[node].left, BLACK),
                w.heap[node].right, BLACK)

FlipColors(w, t, node) ==
  IF w.fault # "none" THEN w
  ELSE IF ~Deref(node) THEN Fault(w, "nullptr")
  ELSE
    LET S1(x) == IF x.heap[node].parent = NULL
                 THEN SetColor(x, node, BLACK)
                 ELSE SetColor(x, node, RED)
        S2(x) == SetColor(x, x.heap[node].left, BLACK)
        S3(x) == SetColor(x, x.heap[node].right, BLACK)
    IN S3(S2(S1(w)))

\* A loop of FixTree whose branch for two red children neither flips the
\* colours nor goes up to the parent.
RECURSIVE FixLoopNoClimb(_, _, _, _)
FixLoopNoClimb(w, t, node, fuel) ==
  IF w.fault # "none" \/ node = NULL THEN w
  ELSE IF fuel = 0 THEN Fault(w, "loop")
  ELSE IF ~Deref(node) \/ ~Deref(Left(w, node)) \/ ~Deref(Right(w, node))
    THEN Fault(w, "nullptr")
  ELSE IF Color(w, Left(w, node)) = RED /\ Color(w, Right(w, node)) = RED
    THEN FixLoopNoClimb(w, t, node, fuel - 1)
  ELSE IF Color(w, Right(w, node)) = RED
    THEN FixLoopNoClimb(RotateLeft(w, t, node), t, RotateLeftRet(w, node), fuel - 1)
  ELSE IF w.heap[node].color = RED /\ Color(w, Left(w, node)) = RED
    THEN FixLoopNoClimb(RotateRight(w, t, w.heap[node].parent), t,
                        RotateRightRet(w, w.heap[node].parent), fuel - 1)
  ELSE w

\* The while loop of FixTree, from `node` on.
RECURSIVE FixLoop(_, _, _, _)
FixLoop(w, t, node, fuel) ==
  IF w.fault # "none" \/ node = NULL THEN w
  ELSE IF fuel = 0 THEN Fault(w, "loop")
  ELSE IF ~Deref(node) \/ ~Deref(Left(w, node)) \/ ~Deref(Right(w, node))
    THEN Fault(w, "nullptr")
  ELSE IF Color(w, Left(w, node)) = RED /\ Color(w, Right(w, node)) = RED
    THEN FixLoop(FlipColors(w, t, node), t, w.heap[node].parent, fuel - 1)
  ELSE IF Color(w, Right(w, node)) = RED
    THEN FixLoop(RotateLeft(w, t, node), t, RotateLeftRet(w, node), fuel - 1)
  ELSE IF w.heap[node].color = RED /\ Color(w, Left(w, node)) = RED
    THEN FixLoop(RotateRight(w, t, w.heap[node].parent), t,
                 RotateRightRet(w, w.heap[node].parent), fuel - 1)
  ELSE w

\* FixTree that leaves the tree as InsertNode linked it.
FixTreeSkipped(w, t, new_node) == w

FixTree(w, t, new_node) ==
  IF w.fault # "none" THEN w
  ELSE IF ~Deref(new_node) THEN Fault(w, "nullptr")
  ELSE FixLoop(w, t, w.heap[new_node].parent, Fuel)

\* ------------------------------------------------------------- insertion
InitializeNode(w, t, key) ==
  [w EXCEPT !.heap[NewAddr(w)] =
     [data |-> key, parent |-> NULL, left |-> w.null[t], right |-> w.null[t],
      color |-> RED, used |-> TRUE]]

\* The descent of InsertNode with the comparison the wrong way round.
RECURSIVE FindParentMirrored(_, _, _, _, _, _)
FindParentMirrored(w, t, key, comparing_node, new_parent, fuel) ==
  IF comparing_node = w.null[t] THEN new_parent
  ELSE IF ~Deref(comparing_node) \/ fuel = 0 THEN TRAP
  ELSE IF Less(w.heap[comparing_node].data, key)
    THEN FindParentMirrored(w, t, key, w.heap[comparing_node].left, comparing_node, fuel - 1)
    ELSE FindParentMirrored(w, t, key, w.heap[comparing_node].right, comparing_node, fuel - 1)

\* The "find parent node" loop of InsertNode: the last node visited, nullptr
\* for an empty tree, TRAP when the walk leaves the heap or never ends.
RECURSIVE FindParent(_, _, _, _, _, _)
FindParent(w, t, key, comparing_node, new_parent, fuel) ==
  IF comparing_node = w.null[t] THEN new_parent
  ELSE IF ~Deref(comparing_node) \/ fuel = 0 THEN TRAP
  ELSE IF Less(key, w.heap[comparing_node].data)
    THEN FindParent(w, t, key, w.heap[comparing_node].left, comparing_node, fuel - 1)
    ELSE FindParent(w, t, key, w.heap[comparing_node].right, comparing_node, fuel - 1)

\* An InsertNode that links the new node and leaves the tree as it is, with no
\* FixTree.
InsertNodeUnfixed(w, t, key) ==
  IF w.fault # "none" THEN w
  ELSE
    LET new_node == NewAddr(w)
        S1(x) == SetParent(x, new_node, FindParent(x, t, key, x.root[t], NULL, Fuel))
        S2(x) == IF x.heap[new_node].parent = TRAP THEN Fault(x, "nullptr")
                 ELSE IF x.heap[new_node].parent = NULL
                   THEN [x EXCEPT !.root[t] = new_node]
                 ELSE IF Less(key, x.heap[x.heap[new_node].parent].data)
                   THEN SetLeft(x, x.heap[new_node].parent, new_node)
                 ELSE SetRight(x, x.heap[new_node].parent, new_node)
        S3(x) == IF x.fault # "none" THEN x
                 ELSE IF x.heap[new_node].parent = NULL
                   THEN SetColor(x, new_node, BLACK)
                 ELSE x
        S4(x) == IF x.fault # "none" THEN x ELSE [x EXCEPT !.size[t] = @ + 1]
    IN S4(S3(S2(S1(InitializeNode(w, t, key)))))

\* InsertNode up to its call of FixTree: the new node, at NewAddr(w), is
\* initialised and linked below the parent found.
LinkNode(w, t, key) ==
  LET new_node == NewAddr(w)
      S1(x) == SetParent(x, new_node, FindParent(x, t, key, x.root[t], NULL, Fuel))
      S2(x) == IF x.heap[new_node].parent = TRAP THEN Fault(x, "nullptr")
               ELSE IF x.heap[new_node].parent = NULL
                 THEN [x EXCEPT !.root[t] = new_node]
               ELSE IF Less(key, x.heap[x.heap[new_node].parent].data)
                 THEN SetLeft(x, x.heap[new_node].parent, new_node)
               ELSE SetRight(x, x.heap[new_node].parent, new_node)
  IN S2(S1(InitializeNode(w, t, key)))

InsertNode(w, t, key) ==
  IF w.fault # "none" THEN w
  ELSE
    LET new_node == NewAddr(w)
        S1(x) == SetParent(x, new_node, FindParent(x, t, key, x.root[t], NULL, Fuel))
        S2(x) == IF x.heap[new_node].parent = TRAP THEN Fault(x, "nullptr")
                 ELSE IF x.heap[new_node].parent = NULL
                   THEN [x EXCEPT !.root[t] = new_node]
                 ELSE IF Less(key, x.heap[x.heap[new_node].parent].data)
                   THEN SetLeft(x, x.heap[new_node].parent, new_node)
                 ELSE SetRight(x, x.heap[new_node].parent, new_node)
        S3(x) == IF x.fault # "none" THEN x
                 ELSE IF x.heap[new_node].parent = NULL
                   THEN SetColor(x, new_node, BLACK)
                 ELSE FixTree(x, t, new_node)
        S4(x) == IF x.fault # "none" THEN x ELSE [x EXCEPT !.size[t] = @ + 1]
    IN S4(S3(S2(S1(InitializeNode(w, t, key)))))

\* ---------------------------------------------------------------- lookup
\* A FindNode that descends right where the data is greater than the key.
RECURSIVE FindNodeMirrored(_, _, _, _, _)
FindNodeMirrored(w, t, key, tmp_node, fuel) ==
  IF tmp_node = w.null[t] THEN tmp_node
  ELSE IF ~Deref(tmp_node) \/ fuel = 0 THEN TRAP
  ELSE IF w.heap[tmp_node].data = key THEN tmp_node
  ELSE IF Less(key, w.heap[tmp_node].data)
    THEN FindNodeMirrored(w, t, key, w.heap[tmp_node].right, fuel - 1)
    ELSE FindNodeMirrored(w, t, key, w.heap[tmp_node].left, fuel - 1)

\* FindNode: data != key and data > key on key_type.
RECURSIVE FindNode(_, _, _, _, _)
FindNode(w, t, key, tmp_node, fuel) ==
  IF tmp_node = w.null[t] THEN tmp_node
  ELSE IF ~Deref(tmp_node) \/ fuel = 0 THEN TRAP
  ELSE IF w.heap[tmp_node].data = key THEN tmp_node
  ELSE IF Less(key, w.heap[tmp_node].data)
    THEN FindNode(w, t, key, w.heap[tmp_node].left, fuel - 1)
    ELSE FindNode(w, t, key, w.heap[tmp_node].right, fuel - 1)

\* FindNodeMap: the same walk on data.first alone.
RECURSIVE FindNodeMap(_, _, _, _, _)
FindNodeMap(w, t, search_pair, tmp_node, fuel) ==
  IF tmp_node = w.null[t] THEN tmp_node
  ELSE IF ~Deref(tmp_node) \/ fuel = 0 THEN TRAP
  ELSE IF w.heap[tmp_node].data[1] = search_pair[1] THEN tmp_node
  ELSE IF w.heap[tmp_node].data[1] > search_pair[1]
    THEN FindNodeMap(w, t, search_pair, w.heap[tmp_node].left, fuel - 1)
    ELSE FindNodeMap(w, t, search_pair, w.heap[tmp_node].right, fuel - 1)

Find(w, t, key) == FindNode(w, t, key, w.root[t], Fuel)

FindMap(w, t, search_pair) == FindNodeMap(w, t, search_pair, w.root[t], Fuel)

Contains(w, t, key) == Find(w, t, key) # w.null[t]

Size(w, t) == w.size[t]

Empty(w, t) == w.size[t] = 0

\* ------------------------------------------------------------- iteration
RECURSIVE MinLoop(_, _, _, _)
MinLoop(w, t, node, fuel) ==
  IF ~Deref(node) \/ fuel = 0 THEN TRAP
  ELSE IF w.heap[node].left # w.null[t] THEN MinLoop(w, t, w.heap[node].left, fuel - 1)
  ELSE node

\* A GetMinNodeSubtree that does not descend.
GetMinNodeNoDescent(w, t, node) == node

GetMinNodeSubtree(w, t, node) == IF node # w.null[t] THEN MinLoop(w, t, node, Fuel) ELSE node

RECURSIVE MaxLoop(_, _, _, _)
MaxLoop(w, t, node, fuel) ==
  IF ~Deref(node) \/ fuel = 0 THEN TRAP
  ELSE IF w.heap[node].right # w.null[t] THEN MaxLoop(w, t, w.heap[node].right, fuel - 1)
  ELSE node

\* A GetMaxNodeSubtree that does not descend.
GetMaxNodeNoDescent(w, t, node) == node

GetMaxNodeSubtree(w, t, node) == IF node # w.null[t] THEN MaxLoop(w, t, node, Fuel) ELSE node

\* The loop of GetNextNode left out: the node is not climbed from.
ClimbRightSkipped(w, tmp_node, fuel) == tmp_node

\* while (tmp_node->parent && tmp_node == tmp_node->parent->right) of GetNextNode
RECURSIVE ClimbRight(_, _, _)
ClimbRight(w, tmp_node, fuel) ==
  IF ~Deref(tmp_node) \/ fuel = 0 THEN TRAP
  ELSE LET par == w.heap[tmp_node].parent
       IN IF par = NULL THEN tmp_node
          ELSE IF ~Deref(par) THEN TRAP
          ELSE IF tmp_node = w.heap[par].right THEN ClimbRight(w, par, fuel - 1)
          ELSE tmp_node

GetNextNode(w, t, node) ==
  IF ~Deref(node) THEN TRAP
  ELSE IF w.heap[node].right # w.null[t] THEN GetMinNodeSubtree(w, t, w.heap[node].right)
  ELSE LET par == w.heap[node].parent
       IN IF par # NULL /\ ~Deref(par) THEN TRAP
          ELSE IF par # NULL /\ node = w.heap[par].left THEN par
          ELSE LET tmp_node == ClimbRight(w, node, Fuel)
               IN IF tmp_node = TRAP THEN TRAP
                  ELSE IF w.heap[tmp_node].parent # NULL THEN w.heap[tmp_node].parent
                  ELSE w.null[t]

\* while (tmp_node->parent && tmp_node == tmp_node->parent->left) of GetPrevNode
RECURSIVE ClimbLeft(_, _, _)
ClimbLeft(w, tmp_node, fuel) ==
  IF ~Deref(tmp_node) \/ fuel = 0 THEN TRAP
  ELSE LET par == w.heap[tmp_node].parent
       IN IF par = NULL THEN tmp_node
          ELSE IF ~Deref(par) THEN TRAP
          ELSE IF tmp_node = w.heap[par].left THEN ClimbLeft(w, par, fuel - 1)
          ELSE tmp_node

GetPrevNode(w, t, node) ==
  IF node = w.null[t] THEN GetMaxNodeSubtree(w, t, w.root[t])
  ELSE IF ~Deref(node) THEN TRAP
  ELSE IF w.heap[node].left # w.null[t] THEN GetMaxNodeSubtree(w, t, w.heap[node].left)
  ELSE LET par == w.heap[node].parent
       IN IF par # NULL /\ ~Deref(par) THEN TRAP
          ELSE IF par # NULL /\ node = w.heap[par].right THEN par
          ELSE LET tmp_node == ClimbLeft(w, node, Fuel)
               IN IF tmp_node = TRAP THEN TRAP
                  ELSE IF w.heap[tmp_node].parent # NULL THEN w.heap[tmp_node].parent
                  ELSE w.null[t]

\* An operator++ that recolours the node it leaves.
IncrementRecolours(w, t, node) ==
  [w |-> IF Deref(node) THEN [w EXCEPT !.heap[node].color = 1 - @] ELSE w,
   node |-> GetNextNode(w, t, node)]

\* iterator::operator++ and operator--, the iterator at node in the tree t:
\* node_ptr = tree_ptr->GetNextNode(node_ptr) assigns the iterator alone.  The
\* record is the world after the call and the new node_ptr.
Increment(w, t, node) ==
  IF GetNextNode(w, t, node) = TRAP THEN [w |-> Fault(w, "nullptr"), node |-> NULL]
  ELSE [w |-> w, node |-> GetNextNode(w, t, node)]

Decrement(w, t, node) ==
  IF GetPrevNode(w, t, node) = TRAP THEN [w |-> Fault(w, "nullptr"), node |-> NULL]
  ELSE [w |-> w, node |-> GetPrevNode(w, t, node)]

begin(w, t) == GetMinNodeSubtree(w, t, w.root[t])

end(w, t) == w.null[t]

\* -------------------------------------------------------------- deletion
\* The balancing functions that return the node to detach give a record
\* [w, ret]: the world after the call and the pointer returned.
\* The exchange of data between two nodes.
SwapData(w, a, b) ==
  IF w.fault # "none" THEN w
  ELSE IF ~Deref(a) \/ ~Deref(b) THEN Fault(w, "nullptr")
  ELSE [w EXCEPT !.heap[a].data = w.heap[b].data, !.heap[b].data = w.heap[a].data]

BalanceBlackWith1Child(w, t, node) ==
  IF w.fault # "none" THEN [w |-> w, ret |-> TRAP]
  ELSE IF ~Deref(node) \/ ~Deref(Left(w, node))
    THEN [w |-> Fault(w, "nullptr"), ret |-> TRAP]
  ELSE [w |-> SwapData(w, node, w.heap[node].left), ret |-> w.heap[node].left]

\* A black leaf detached without any rebalancing.
BalanceChildlessSkipped(w, t, node, fuel) == w

RECURSIVE BalanceChildlessBeforeRemoving(_, _, _, _)
BalanceChildlessBeforeRemoving(w, t, node, fuel) ==
  IF w.fault # "none" THEN w
  ELSE IF fuel = 0 THEN Fault(w, "loop")
  ELSE IF ~Deref(node) THEN Fault(w, "nullptr")
  ELSE IF w.heap[node].parent = NULL THEN w
  ELSE IF ~Deref(w.heap[node].parent) THEN Fault(w, "nullptr")
  ELSE
    LET par == w.heap[node].parent
        sr == w.heap[par].right
        sl == w.heap[par].left
        \* case 1, the sibling's left child is red
        A1(x) == RotateRight(x, t, sr)
        A2(x) == SetRight(x, Parent(x, node), RotateRightRet(w, sr))
        A3(x) == RotateLeft(x, t, Parent(x, node))
        A4(x) == SetColor(x, Parent(x, node), BLACK)
        A5(x) == SetColor(x, Right(x, Parent(x, Parent(x, node))), BLACK)
        \* case 1, the sibling has no red child
        B1(x) == SetColor(x, sr, RED)
        B2(x) == IF x.fault # "none" THEN x
                 ELSE IF x.heap[par].color = RED
                   THEN RotateLeft(SetColor(x, par, BLACK), t, par)
                 ELSE BalanceChildlessBeforeRemoving(RotateLeft(x, t, par), t,
                                                     RotateLeftRet(x, par), fuel - 1)
        \* case 2, the sibling's left child is red
        C1(x) == RotateRight(x, t, par)
        C2(x) == SetColor(x, Parent(x, node), BLACK)
        C3(x) == SetColor(x, Left(x, Parent(x, Parent(x, node))), BLACK)
        \* case 2, the sibling has no red child
        D1(x) == SetColor(x, sl, RED)
        D2(x) == IF x.fault # "none" THEN x
                 ELSE IF x.heap[par].color = RED THEN SetColor(x, par, BLACK)
                 ELSE BalanceChildlessBeforeRemoving(x, t, par, fuel - 1)
        \* case 3, red left sibling
        E1(x) == RotateRight(x, t, par)
        E2(x) == SetColor(x, Parent(x, node), BLACK)
        E3(x) == SetColor(x, Left(x, Parent(x, node)), RED)
        E4(x) == IF x.fault # "none" THEN x
                 ELSE IF ~Deref(Left(x, Left(x, Parent(x, node)))) THEN Fault(x, "nullptr")
                 ELSE IF Color(x, Left(x, Left(x, Parent(x, node)))) = RED
                   THEN FixTree(x, t, Left(x, Left(x, Parent(x, node))))
                 ELSE x
    IN
    IF sr # node
    THEN \* node is the left child
      IF ~Deref(sr) THEN Fault(w, "nullptr")
      ELSE IF sr # w.null[t] /\ ~Deref(w.heap[sr].left) THEN Fault(w, "nullptr")
      ELSE IF sr # w.null[t] /\ w.heap[w.heap[sr].left].color = RED
        THEN A5(A4(A3(A2(A1(w)))))
      ELSE B2(B1(w))
    ELSE IF ~Deref(sl) THEN Fault(w, "nullptr")
    ELSE IF sl # node /\ w.heap[sl].color = BLACK
    THEN \* node is the right child and its sibling is black
      IF sl # w.null[t] /\ ~Deref(w.heap[sl].left) THEN Fault(w, "nullptr")
      ELSE IF sl # w.null[t] /\ w.heap[w.heap[sl].left].color = RED
        THEN C3(C2(C1(w)))
      ELSE D2(D1(w))
    ELSE E4(E3(E2(E1(w))))

RECURSIVE SmallerLoop(_, _, _, _)
SmallerLoop(w, t, tmp_node, fuel) ==
  IF ~Deref(tmp_node) \/ fuel = 0 THEN TRAP
  ELSE IF w.heap[tmp_node].right # w.null[t]
    THEN SmallerLoop(w, t, w.heap[tmp_node].right, fuel - 1)
  ELSE tmp_node

FindSmallerNeighborBelow(w, t, node) ==
  IF ~Deref(node) THEN TRAP
  ELSE IF w.heap[node].left # w.null[t] THEN SmallerLoop(w, t, w.heap[node].left, Fuel)
  ELSE w.heap[node].left

RECURSIVE GreaterLoop(_, _, _, _)
GreaterLoop(w, t, tmp_node, fuel) ==
  IF ~Deref(tmp_node) \/ fuel = 0 THEN TRAP
  ELSE IF w.heap[tmp_node].left # w.null[t]
    THEN GreaterLoop(w, t, w.heap[tmp_node].left, fuel - 1)
  ELSE tmp_node

FindGreaterNeighborBelow(w, t, node) ==
  IF ~Deref(node) THEN TRAP
  ELSE IF w.heap[node].right # w.null[t] THEN GreaterLoop(w, t, w.heap[node].right, Fuel)
  ELSE w.heap[node].right

\* The neighbour that BalanceAnyWith2Children exchanges data with.
ExchangedNode(w, t, node) ==
  IF ~Deref(FindSmallerNeighborBelow(w, t, node))
     \/ ~Deref(FindGreaterNeighborBelow(w, t, node)) THEN TRAP
  ELSE IF w.heap[FindGreaterNeighborBelow(w, t, node)].color = RED
    THEN FindGreaterNeighborBelow(w, t, node)
  ELSE FindSmallerNeighborBelow(w, t, node)

\* "balancing in case exchanged_node is black" of BalanceAnyWith2Children
BalanceExchanged(w, t, exchanged_node) ==
  IF w.fault # "none" THEN [w |-> w, ret |-> TRAP]
  ELSE IF w.heap[exchanged_node].color = BLACK
    THEN IF ~Deref(w.heap[exchanged_node].left)
           THEN [w |-> Fault(w, "nullptr"), ret |-> TRAP]
         ELSE IF w.heap[w.heap[exchanged_node].left].color = RED
           THEN BalanceBlackWith1Child(w, t, exchanged_node)
         ELSE [w |-> BalanceChildlessBeforeRemoving(w, t, exchanged_node, Fuel),
               ret |-> exchanged_node]
  ELSE [w |-> w, ret |-> exchanged_node]

BalanceAnyWith2Children(w, t, node) ==
  IF w.fault # "none" THEN [w |-> w, ret |-> TRAP]
  ELSE IF ExchangedNode(w, t, node) = TRAP
    THEN [w |-> Fault(w, "nullptr"), ret |-> TRAP]
  ELSE BalanceExchanged(SwapData(w, node, ExchangedNode(w, t, node)), t,
                        ExchangedNode(w, t, node))

\* The call of BalanceChildlessBeforeRemoving that Erase(pos) leads to, through
\* BalanceTreeBeforeRemoving or BalanceAnyWith2Children: the world it is made
\* in and its argument, NULL when there is no such call.
ChildlessCall(w, t, pos) ==
  IF ~Deref(pos) \/ pos = w.null[t] \/ ~Deref(w.heap[pos].left) \/ ~Deref(w.heap[pos].right)
    THEN [w |-> w, node |-> NULL]
  ELSE IF w.heap[pos].left # w.null[t] /\ w.heap[pos].right # w.null[t]
    THEN IF ExchangedNode(w, t, pos) = TRAP THEN [w |-> w, node |-> NULL]
         ELSE IF w.heap[ExchangedNode(w, t, pos)].color = BLACK
                 /\ Color(w, Left(w, ExchangedNode(w, t, pos))) # RED
           THEN [w |-> SwapData(w, pos, ExchangedNode(w, t, pos)),
                 node |-> ExchangedNode(w, t, pos)]
         ELSE [w |-> w, node |-> NULL]
  ELSE IF w.heap[w.heap[pos].left].color = RED THEN [w |-> w, node |-> NULL]
  ELSE IF w.heap[pos].color = BLACK /\ w.heap[pos].left = w.null[t]
          /\ w.heap[pos].right = w.null[t]
    THEN [w |-> w, node |-> pos]
  ELSE [w |-> w, node |-> NULL]

\* A BalanceTreeBeforeRemoving that returns the node given, wherever it is.
BalanceNothing(w, t, node) == [w |-> w, ret |-> node]

BalanceTreeBeforeRemoving(w, t, node) ==
  IF w.fault # "none" THEN [w |-> w, ret |-> TRAP]
  ELSE IF node = w.null[t] THEN [w |-> w, ret |-> node]
  ELSE IF ~Deref(node) THEN [w |-> Fault(w, "nullptr"), ret |-> TRAP]
  ELSE IF w.heap[node].left # w.null[t] /\ w.heap[node].right # w.null[t]
    THEN BalanceAnyWith2Children(w, t, node)
  ELSE IF ~Deref(w.heap[node].left) THEN [w |-> Fault(w, "nullptr"), ret |-> TRAP]
  ELSE IF w.heap[w.heap[node].left].color = RED
    THEN BalanceBlackWith1Child(w, t, node)
  ELSE IF w.heap[node].color = BLACK /\ w.heap[node].left = w.null[t]
          /\ w.heap[node].right = w.null[t]
    THEN [w |-> BalanceChildlessBeforeRemoving(w, t, node, Fuel), ret |-> node]
  ELSE [w |-> w, ret |-> node]

\* RemoveLeaf without --tree_size_.
RemoveLeafNoCount(w, t, node) ==
  IF w.fault # "none" \/ node = w.null[t] THEN w
  ELSE IF ~Deref(node) THEN Fault(w, "nullptr")
  ELSE SetRight(SetLeft(SetParent(Reparent(w, t, node, w.null[t]), node, NULL), node, NULL),
                node, NULL)

\* A RemoveLeaf without the test node != null_node_.
RemoveLeafUnguarded(w, t, node) ==
  IF w.fault # "none" THEN w
  ELSE IF ~Deref(node) THEN Fault(w, "nullptr")
  ELSE
    LET S1(x) == Reparent(x, t, node, x.null[t])
        S2(x) == SetParent(x, node, NULL)
        S3(x) == SetLeft(x, node, NULL)
        S4(x) == SetRight(x, node, NULL)
        S5(x) == IF x.fault # "none" THEN x ELSE [x EXCEPT !.size[t] = @ - 1]
    IN S5(S4(S3(S2(S1(w)))))

RemoveLeaf(w, t, node) ==
  IF w.fault # "none" \/ node = w.null[t] THEN w
  ELSE IF ~Deref(node) THEN Fault(w, "nullptr")
  ELSE
    LET S1(x) == Reparent(x, t, node, x.null[t])
        S2(x) == SetParent(x, node, NULL)
        S3(x) == SetLeft(x, node, NULL)
        S4(x) == SetRight(x, node, NULL)
        S5(x) == IF x.fault # "none" THEN x ELSE [x EXCEPT !.size[t] = @ - 1]
    IN S5(S4(S3(S2(S1(w)))))

\* RemoveLeaf on the node that a balancing function returned.
RemoveReturned(b, t) == RemoveLeaf(b.w, t, b.ret)

\* An Erase that rebalances for the removal and then removes nothing.
EraseBalancesOnly(w, t, pos) == BalanceTreeBeforeRemoving(w, t, pos).w

\* An Erase that unlinks the node at pos as it stands, without exchanging data
\* with a neighbour first.
EraseUnbalanced(w, t, pos) == RemoveLeaf(w, t, pos)

Erase(w, t, pos) == RemoveReturned(BalanceTreeBeforeRemoving(w, t, pos), t)

\* ----------------------------------------------------------------- clear
\* ClearSubTree: children before the parent, RemoveLeaf on each.
RECURSIVE ClearSubTree(_, _, _, _)
ClearSubTree(w, t, sub_root, fuel) ==
  IF w.fault # "none" THEN w
  ELSE IF fuel = 0 THEN Fault(w, "loop")
  ELSE IF ~Deref(sub_root) THEN Fault(w, "nullptr")
  ELSE
    LET S1(x) == IF x.heap[sub_root].left # x.null[t]
                 THEN ClearSubTree(x, t, x.heap[sub_root].left, fuel - 1)
                 ELSE x
        S2(x) == IF x.fault # "none" THEN x
                 ELSE IF x.heap[sub_root].right # x.null[t]
                 THEN ClearSubTree(x, t, x.heap[sub_root].right, fuel - 1)
                 ELSE x
    IN RemoveLeaf(S2(S1(w)), t, sub_root)

\* null_node_ = new TreeNode and the assignments after it, in Clear and in the
\* default constructor.
NewSentinel(w, t) ==
  IF w.fault # "none" THEN w
  ELSE [w EXCEPT !.heap[NewAddr(w)] = SentinelNode,
                 !.null[t] = NewAddr(w), !.root[t] = NewAddr(w), !.size[t] = 0]

\* A Clear that leaves root_ as RemoveLeaf set it, at the sentinel of before.
ClearKeepsRoot(w, t) ==
  LET S1(x) == IF x.root[t] # x.null[t] THEN ClearSubTree(x, t, x.root[t], Fuel) ELSE x
      S2(x) == IF x.fault # "none" THEN x
               ELSE [x EXCEPT !.heap[NewAddr(x)] = SentinelNode,
                              !.null[t] = NewAddr(x), !.size[t] = 0]
  IN S2(S1(w))

Clear(w, t) ==
  NewSentinel(IF w.root[t] # w.null[t] THEN ClearSubTree(w, t, w.root[t], Fuel) ELSE w, t)

\* ----------------------------------------------------------------- merge
\* The while loop of Merge(other), this = t and other = o, from other_current.
RECURSIVE MergeLoop(_, _, _, _, _)
MergeLoop(w, t, o, other_current, fuel) ==
  IF w.fault # "none" \/ other_current = w.null[o] THEN w
  ELSE IF fuel = 0 THEN Fault(w, "loop")
  ELSE IF ~Deref(other_current) THEN Fault(w, "nullptr")
  ELSE IF Find(w, t, w.heap[other_current].data) = TRAP
          \/ GetNextNode(w, o, other_current) = TRAP THEN Fault(w, "nullptr")
  ELSE IF Find(w, t, w.heap[other_current].data) = w.null[t]
    THEN LET node_to_move == other_current
             S1(x) == InsertNode(x, t, x.heap[node_to_move].data)
             S2(x) == BalanceTreeBeforeRemoving(x, o, node_to_move).w
             S3(x) == RemoveLeaf(x, o, node_to_move)
         IN MergeLoop(S3(S2(S1(w))), t, o, GetNextNode(w, o, other_current), fuel - 1)
  ELSE MergeLoop(w, t, o, GetNextNode(w, o, other_current), fuel - 1)

Merge(w, t, o) ==
  IF t # o THEN MergeLoop(w, t, o, begin(w, o), Fuel) ELSE w

\* ------------------------------------------------------------------ swap
\* A Swap that exchanges root_ and null_node_ and leaves each tree_size_.
SwapKeepsCount(w, t, o) ==
  [w EXCEPT !.root = [@ EXCEPT ![t] = w.root[o], ![o] = w.root[t]],
            !.null = [@ EXCEPT ![t] = w.null[o], ![o] = w.null[t]]]

\* Swap(other): std::swap of root_, null_node_ and tree_size_, this = t and
\* other = o.
Swap(w, t, o) ==
  [w EXCEPT !.root = [@ EXCEPT ![t] = w.root[o], ![o] = w.root[t]],
            !.null = [@ EXCEPT ![t] = w.null[o], ![o] = w.null[t]],
            !.size = [@ EXCEPT ![t] = w.size[o], ![o] = w.size[t]]]

\* ------------------------------------------------------------------ copy
\* The for loop of the copy constructor and of the copy assignment, this = t
\* and other = o, from iter: InsertNode of the element, then ++iter.
RECURSIVE CopyLoop(_, _, _, _, _)
CopyLoop(w, t, o, iter, fuel) ==
  IF w.fault # "none" \/ iter = w.null[o] THEN w
  ELSE IF fuel = 0 THEN Fault(w, "loop")
  ELSE IF ~Deref(iter) \/ GetNextNode(w, o, iter) = TRAP THEN Fault(w, "nullptr")
  ELSE CopyLoop(InsertNode(w, t, w.heap[iter].data), t, o, GetNextNode(w, o, iter), fuel - 1)

\* operator=(const LLRBTree &other), this = t and other = o.
CopyAssign(w, t, o) ==
  IF t # o
  THEN LET S1(x) == Clear(x, t)
           S2(x) == IF x.fault # "none" THEN x ELSE CopyLoop(x, t, o, begin(x, o), Fuel)
       IN S2(S1(w))
  ELSE w

\* What root_, null_node_ and tree_size_ hold in an object whose constructor
\* has not assigned them (they have no initialisers): nullptr or zero where the
\* storage is fresh, anything else where it is recycled.
UninitPointers == {NULL, UNINIT}

\* LLRBTree(const LLRBTree &other), this = t and other = o: the body is that of
\* the copy assignment, and the Clear() it starts with reads the root_ and the
\* null_node_ of the object under construction, here r and n.  tree_size_ is
\* written by Clear() before anything reads it.
CopyConstruct(w, t, o, r, n) ==
  CopyAssign([w EXCEPT !.root[t] = r, !.null[t] = n, !.size[t] = 0], t, o)

\* ------------------------------------------------------------------ move
\* LLRBTree(LLRBTree &&other), this = t and other = o: the three members are
\* taken in the initialiser list, then other's are reset.
MoveConstruct(w, t, o) ==
  LET S1(x) == [x EXCEPT !.root[t] = x.root[o], !.size[t] = x.size[o], !.null[t] = x.null[o]]
      S2(x) == [x EXCEPT !.root[o] = NULL, !.size[o] = 0, !.null[o] = NULL]
  IN S2(S1(w))

\* ------------------------------------------------------ set and map views
\* LLRBTree::Insert: [w, node, ok] is the world after the call and the pair
\* (iterator, bool) returned.
\* An Insert whose returned position is looked up in the tree as it was before
\* the node was linked.
InsertStaleFind(w, t, data) ==
  LET status == Find(w, t, data) = w.null[t]
      w1 == IF status THEN InsertNode(w, t, data) ELSE w
  IN [w |-> w1, node |-> Find(w, t, data), ok |-> status]

Insert(w, t, data) ==
  LET status == Find(w, t, data) = w.null[t]
      w1 == IF status THEN InsertNode(w, t, data) ELSE w
  IN [w |-> w1, node |-> Find(w1, t, data), ok |-> status]

\* An InsertMap that looks the element up by the whole pair, as Insert does.
InsertMapByPair(w, t, data) ==
  LET status == Find(w, t, data) = w.null[t]
      w1 == IF status THEN InsertNode(w, t, data) ELSE w
  IN [w |-> w1, node |-> Find(w1, t, data), ok |-> status]

InsertMap(w, t, data) ==
  LET status == FindMap(w, t, data) = w.null[t]
      w1 == IF status THEN InsertNode(w, t, data) ELSE w
  IN [w |-> w1, node |-> FindMap(w1, t, data), ok |-> status]

\* map::at, map::operator[] and map::insert_or_assign give a record [w, node,
\* ok]: the world after the call and the node whose mapped value is referred
\* to.  ok is FALSE where at throws std::out_of_range, and is the bool of the
\* pair where an insertion is tried.

\* An at that looks the probe pair (key, mapped_type{}) up as a whole.
AtByPair(w, t, key) ==
  IF Find(w, t, <<key, 0>>) = TRAP THEN [w |-> Fault(w, "nullptr"), node |-> NULL, ok |-> FALSE]
  ELSE [w |-> w, node |-> Find(w, t, <<key, 0>>), ok |-> Find(w, t, <<key, 0>>) # end(w, t)]

\* map::at(key) on the tree t
At(w, t, key) ==
  LET search_iter == FindMap(w, t, <<key, 0>>)
  IN IF search_iter = TRAP THEN [w |-> Fault(w, "nullptr"), node |-> NULL, ok |-> FALSE]
     ELSE [w |-> w, node |-> search_iter, ok |-> search_iter # end(w, t)]

\* An operator[] that inserts nothing on a miss.
IndexNoInsert(w, t, key) ==
  [w |-> w, node |-> FindMap(w, t, <<key, 0>>), ok |-> FALSE]

\* map::operator[](key) on the tree t; ok tells that an entry was inserted
Index(w, t, key) ==
  LET search_iter == FindMap(w, t, <<key, 0>>)
  IN IF search_iter = TRAP THEN [w |-> Fault(w, "nullptr"), node |-> NULL, ok |-> FALSE]
     ELSE IF search_iter = end(w, t) THEN Insert(w, t, <<key, 0>>)
     ELSE [w |-> w, node |-> search_iter, ok |-> FALSE]

\* (*iter).second = obj, iter at the node n
AssignSecond(w, n, obj) ==
  IF w.fault # "none" THEN w
  ELSE IF ~Deref(n) THEN Fault(w, "nullptr")
  ELSE [w EXCEPT !.heap[n].data = <<@[1], obj>>]

\* An insert_or_assign that inserts whenever the pair (key, obj) is not held.
InsertOrAssignByPair(w, t, key, obj) ==
  IF Find(w, t, <<key, obj>>) = end(w, t) THEN Insert(w, t, <<key, obj>>)
  ELSE [w |-> w, node |-> Find(w, t, <<key, obj>>), ok |-> FALSE]

\* An insert_or_assign that keeps the mapped value of an entry held, as insert
\* does.
InsertOrAssignKeeps(w, t, key, obj) == InsertMap(w, t, <<key, obj>>)

\* map::insert_or_assign(key, obj) on the tree t
InsertOrAssign(w, t, key, obj) ==
  LET res == FindMap(w, t, <<key, obj>>)
  IN IF res = TRAP THEN [w |-> Fault(w, "nullptr"), node |-> NULL, ok |-> FALSE]
     ELSE IF res = end(w, t) THEN InsertMap(w, t, <<key, obj>>)
     ELSE [w |-> AssignSecond(w, res, obj), node |-> res, ok |-> FALSE]

\* ------------------------------------------------------------ the machine
\* Addresses reachable from the tree objects through any link.
RECURSIVE Closure(_, _)
Closure(h, S) ==
  LET T == S \cup (UNION {{h[n].parent, h[n].left, h[n].right} : n \in S} \cap Nodes)
  IN IF T = S THEN S ELSE Closure(h, T)

Roots(w) == {w.root[t] : t \in Trees} \cup {w.null[t] : t \in Trees}

\* A node that no tree object reaches any more is never read or written
\* again: its cell is given back, so that addresses stay in 1..MaxNodes.
Collect(w) ==
  LET keep == Closure(w.heap, Roots(w) \cap Nodes)
  IN [w EXCEPT !.heap = [n \in Nodes |-> IF n \in keep THEN w.heap[n] ELSE FreeNode]]

\* The nodes of tree t in in-order, by the left and right links from `n`.
RECURSIVE InOrder(_, _, _, _)
InOrder(w, t, n, depth) ==
  IF n = w.null[t] \/ ~Deref(n) \/ depth = 0 THEN <<>>
  ELSE InOrder(w, t, w.heap[n].left, depth - 1) \o <<n>>
       \o InOrder(w, t, w.heap[n].right, depth - 1)

TreeSeq(w, t) == InOrder(w, t, w.root[t], MaxNodes)

TreeNodes(w, t) == {TreeSeq(w, t)[i] : i \in 1..Len(TreeSeq(w, t))}

\* The addresses of S in increasing order.
SetToSeq(S) == SelectSeq([i \in 1..MaxNodes |-> i], LAMBDA n : n \in S)

SeqSet(q) == {q[i] : i \in 1..Len(q)}

\* The code never orders or prints addresses, so a run is the same run under
\* any renaming of them.  After a call the addresses are renamed, in the new
\* world, in the world the call started from and in the result alike: the
\* sentinels first, then the nodes of each tree in in-order, then the rest.
CanonHead(w) == <<w.null["A"], w.null["B"]>> \o TreeSeq(w, "A") \o TreeSeq(w, "B")

CanonOrder(w, p) ==
  LET head == CanonHead(w)
      usedW == {n \in Nodes : w.heap[n].used}
      usedP == {n \in Nodes : p.heap[n].used}
  IN head \o SetToSeq(usedW \ SeqSet(head))
     \o SetToSeq(usedP \ (SeqSet(head) \cup usedW))
     \o SetToSeq(Nodes \ (SeqSet(head) \cup usedW \cup usedP))

\* The new address of every old address under the order.
NewName(order) == [x \in Nodes |-> CHOOSE i \in Nodes : order[i] = x]

Rename(name, x) == IF x \in Nodes THEN name[x] ELSE x

RenameWorld(order, name, x) ==
  [x EXCEPT !.heap = [i \in Nodes |-> [x.heap[order[i]] EXCEPT
                                         !.parent = Rename(name, @),
                                         !.left = Rename(name, @),
                                         !.right = Rename(name, @)]],
            !.root = [t \in Trees |-> Rename(name, x.root[t])],
            !.null = [t \in Trees |-> Rename(name, x.null[t])]]

Canon(w, p, l) ==
  LET head == CanonHead(w)
      order == CanonOrder(w, p)
      name == NewName(CanonOrder(w, p))
  IN IF Len(head) = Cardinality(SeqSet(head)) /\ SeqSet(head) \subseteq Nodes
     THEN [w |-> RenameWorld(order, name, w), p |-> RenameWorld(order, name, p),
           l |-> [l EXCEPT !.node = Rename(name, @)]]
     ELSE [w |-> w, p |-> p, l |-> l]

\* The world after the construction of the two containers: each tree is its
\* sentinel, root_ = null_node_ and tree_size_ = 0.
Constructed ==
  [heap |-> [n \in Nodes |-> IF n \in {1, 2} THEN SentinelNode ELSE FreeNode],
   root |-> [t \in Trees |-> IF t = "A" THEN 1 ELSE 2],
   null |-> [t \in Trees |-> IF t = "A" THEN 1 ELSE 2],
   size |-> [t \in Trees |-> 0],
   fault |-> "none"]

NoOp == [op |-> "init", t |-> "A", key |-> NoData, node |-> NULL, ok |-> FALSE]

Init ==
  /\ view \in {"set", "map"}
  /\ heap = [n \in Nodes |-> IF n \in {1, 2} THEN SentinelNode ELSE FreeNode]
  /\ root_ = [t \in Trees |-> IF t = "A" THEN 1 ELSE 2]
  /\ null_node_ = [t \in Trees |-> IF t = "A" THEN 1 ELSE 2]
  /\ tree_size_ = [t \in Trees |-> 0]
  /\ tree_ptr_ = [c \in Containers |-> IF c = "a" THEN "A" ELSE "B"]
  /\ fault = "none"
  /\ last = NoOp
  /\ pre = [heap |-> heap, root |-> root_, null |-> null_node_, size |-> tree_size_,
            fault |-> fault]
  /\ data_ = [null |-> TRUE, cells |-> <<>>]
  /\ size_ = 0
  /\ capacity_ = 0

\* The step of a completed call: the world it leaves, what was called and what
\* it returned (last), and the world it was called in (pre).
Commit(w, l) ==
  \E c \in {Canon(Collect(w), World, l)} :
     /\ view' = view
     /\ heap' = c.w.heap
     /\ root_' = c.w.root
     /\ null_node_' = c.w.null
     /\ tree_size_' = c.w.size
     /\ tree_ptr_' = tree_ptr_
     /\ fault' = c.w.fault
     /\ last' = c.l
     /\ pre' = c.p
     /\ UNCHANGED <<data_, size_, capacity_>>

\* set::insert(k) on tree t
set_insert(t, k) ==
  /\ fault = "none" /\ view = "set"
  /\ \E r \in {Insert(World, t, <<k, 0>>)} :
       Commit(r.w, [op |-> "Insert", t |-> t, key |-> <<k, 0>>, node |-> r.node, ok |-> r.ok])

\* map::insert(value_type{k, v}) on tree t
map_insert(t, k, v) ==
  /\ fault = "none" /\ view = "map"
  /\ \E r \in {InsertMap(World, t, <<k, v>>)} :
       Commit(r.w, [op |-> "InsertMap", t |-> t, key |-> <<k, v>>, node |-> r.node, ok |-> r.ok])

\* set::erase(pos) and map::erase(pos), pos the position of an element of t
erase(t, pos) ==
  /\ fault = "none"
  /\ pos \in TreeNodes(World, t)
  /\ \E w \in {Erase(World, t, pos)} :
       Commit(w, [op |-> "Erase", t |-> t, key |-> heap[pos].data, node |-> pos, ok |-> TRUE])

\* set::clear() and map::clear()
clear(t) ==
  /\ fault = "none"
  /\ \E w \in {Clear(World, t)} :
       Commit(w, [op |-> "Clear", t |-> t, key |-> NoData, node |-> NULL, ok |-> TRUE])

\* set::erase(end()) and map::erase(end())
erase_end(t) ==
  /\ fault = "none"
  /\ \E w \in {Erase(World, t, end(World, t))} :
       Commit(w, [op |-> "EraseEnd", t |-> t, key |-> NoData, node |-> end(World, t), ok |-> TRUE])

\* map::at(k) on tree t; last.ok is FALSE when it throws
map_at(t, k) ==
  /\ fault = "none" /\ view = "map"
  /\ \E r \in {At(World, t, k)} :
       Commit(r.w, [op |-> "At", t |-> t, key |-> <<k, 0>>, node |-> r.node, ok |-> r.ok])

\* map::operator[](k) on tree t, the reference only read
map_index(t, k) ==
  /\ fault = "none" /\ view = "map"
  /\ \E r \in {Index(World, t, k)} :
       Commit(r.w, [op |-> "Index", t |-> t, key |-> <<k, 0>>, node |-> r.node, ok |-> r.ok])

\* m[k] = v on tree t
map_index_assign(t, k, v) ==
  /\ fault = "none" /\ view = "map"
  /\ \E r \in {Index(World, t, k)} :
       \E w \in {AssignSecond(r.w, r.node, v)} :
         Commit(w, [op |-> "IndexAssign", t |-> t, key |-> <<k, v>>, node |-> r.node, ok |-> r.ok])

\* map::insert_or_assign(k, v) on tree t
map_insert_or_assign(t, k, v) ==
  /\ fault = "none" /\ view = "map"
  /\ \E r \in {InsertOrAssign(World, t, k, v)} :
       Commit(r.w, [op |-> "InsertOrAssign", t |-> t, key |-> <<k, v>>, node |-> r.node, ok |-> r.ok])

Next ==
  \/ \E k \in Keys : set_insert("A", k)
  \/ \E k \in MapKeys, v \in Vals : map_insert("A", k, v)
  \/ \E pos \in Nodes : erase("A", pos)
  \/ erase_end("A")
  \/ clear("A")
  \/ \E k \in MapKeys : map_at("A", k)
  \/ \E k \in MapKeys : map_index("A", k)
  \/ \E k \in MapKeys, v \in Vals : map_index_assign("A", k, v)
  \/ \E k \in MapKeys, v \in Vals : map_insert_or_assign("A", k, v)

Spec == Init /\ [][Next]_vars

\* set::merge(other) on tree t, other being the distinct tree o
merge(t, o) ==
  /\ fault = "none" /\ t # o
  /\ \E w \in {Merge(World, t, o)} :
       Commit(w, [op |-> "Merge", t |-> t, key |-> NoData, node |-> NULL, ok |-> TRUE])

\* set::swap(other) on tree t, other being the tree o
swap(t, o) ==
  /\ fault = "none"
  /\ \E w \in {Swap(World, t, o)} :
       Commit(w, [op |-> "Swap", t |-> t, key |-> NoData, node |-> NULL, ok |-> TRUE])

\* Two sets built by inserts and swapped, then one merged into the other.
InitMerge == Init /\ view = "set"

NextMerge ==
  \/ \E k \in MergeKeys : last.op # "Merge" /\ set_insert("A", k)
  \/ \E k \in MergeKeys : last.op # "Merge" /\ set_insert("B", k)
  \/ last.op # "Merge" /\ swap("A", "B")
  \/ last.op # "Merge" /\ merge("A", "B")

SpecMerge == InitMerge /\ [][NextMerge]_vars

\* set& operator=(const set &s): *tree_ptr_ = *s.tree_ptr_, the tree t of this
\* set and the tree o of s
copy_assign(t, o) ==
  /\ fault = "none"
  /\ \E w \in {CopyAssign(World, t, o)} :
       Commit(w, [op |-> "CopyAssign", t |-> t, key |-> NoData, node |-> NULL, ok |-> TRUE])

\* set(const set &s): tree_ptr_(new tree_type(*s.tree_ptr_)), t the new tree
\* and o the tree of s; r and n are what the new object holds in root_ and
\* null_node_ when the constructor body starts
copy_construct(t, o, r, n) ==
  /\ fault = "none" /\ t # o
  /\ \E w \in {CopyConstruct(World, t, o, r, n)} :
       Commit(w, [op |-> "CopyConstruct", t |-> t, key |-> NoData, node |-> NULL, ok |-> TRUE])

\* Two sets built by inserts and erases, one of them made again and again as
\* a copy of the other.
InitCopy == Init /\ view = "set"

NextCopy ==
  \/ \E t \in Trees, k \in CopyKeys : set_insert(t, k)
  \/ \E t \in Trees, pos \in Nodes : erase(t, pos)
  \/ copy_assign("B", "A")
  \/ \E r \in UninitPointers, n \in UninitPointers : copy_construct("B", "A", r, n)

SpecCopy == InitCopy /\ [][NextCopy]_vars

\* LLRBTree u(std::move(t)): the tree t made from the tree o
move_construct(t, o) ==
  /\ fault = "none" /\ t # o
  /\ \E w \in {MoveConstruct(World, t, o)} :
       Commit(w, [op |-> "MoveConstruct", t |-> t, key |-> NoData, node |-> NULL, ok |-> TRUE])

\* set(set &&s) and set::operator=(set &&s), this = d: tree_ptr_ =
\* std::move(s.tree_ptr_) copies the pointer, s.tree_ptr_ keeps its value and
\* no tree object is read or written.
set_move(d, s) ==
  /\ fault = "none"
  /\ tree_ptr_' = [tree_ptr_ EXCEPT ![d] = tree_ptr_[s]]
  /\ last' = [op |-> "SetMove", t |-> tree_ptr_[s], key |-> NoData, node |-> NULL, ok |-> TRUE]
  /\ pre' = World
  /\ UNCHANGED <<view, heap, root_, null_node_, tree_size_, fault, data_, size_, capacity_>>

\* Two sets built by inserts and erases through the containers, then one of
\* them moved into the other, as trees or as sets.  A tree that has been moved
\* from is not used again.
InitMove == Init /\ view = "set"

NextMove ==
  \/ \E c \in Containers, k \in CopyKeys :
       last.op # "MoveConstruct" /\ set_insert(tree_ptr_[c], k)
  \/ \E c \in Containers, pos \in Nodes :
       last.op # "MoveConstruct" /\ erase(tree_ptr_[c], pos)
  \/ last.op \notin {"MoveConstruct", "SetMove"} /\ move_construct("B", "A")
  \/ last.op \notin {"MoveConstruct", "SetMove"} /\ set_move("b", "a")

SpecMove == InitMove /\ [][NextMove]_vars

\* A set or a map filled with the keys 1, 2, 3, ... in ascending order: every
\* insert is of the key one above the number of elements held.
InitAscending == Init

NextAscending ==
  \/ \E k \in AscKeys : k = tree_size_["A"] + 1 /\ set_insert("A", k)
  \/ \E k \in AscKeys, v \in Vals : k = tree_size_["A"] + 1 /\ map_insert("A", k, v)

SpecAscending == InitAscending /\ [][NextAscending]_vars

\* The operations that only read, on tree t.  They are const member functions
\* or return an iterator on a node found; last holds what was asked and what
\* was answered (the count of Size() in last.key).
find(t, k) ==
  /\ fault = "none" /\ Find(World, t, <<k, 0>>) # TRAP
  /\ Commit(World, [op |-> "Find", t |-> t, key |-> <<k, 0>>,
                    node |-> Find(World, t, <<k, 0>>),
                    ok |-> Find(World, t, <<k, 0>>) # end(World, t)])

contains(t, k) ==
  /\ fault = "none" /\ Find(World, t, <<k, 0>>) # TRAP
  /\ Commit(World, [op |-> "Contains", t |-> t, key |-> <<k, 0>>, node |-> NULL,
                    ok |-> Contains(World, t, <<k, 0>>)])

size(t) ==
  /\ fault = "none"
  /\ Commit(World, [op |-> "Size", t |-> t, key |-> <<Size(World, t), 0>>, node |-> NULL,
                    ok |-> TRUE])

empty(t) ==
  /\ fault = "none"
  /\ Commit(World, [op |-> "Empty", t |-> t, key |-> NoData, node |-> NULL,
                    ok |-> Empty(World, t)])

begin_end(t) ==
  /\ fault = "none" /\ begin(World, t) # TRAP
  /\ Commit(World, [op |-> "Begin", t |-> t, key |-> NoData, node |-> begin(World, t),
                    ok |-> begin(World, t) # end(World, t)])

\* ++it, it at the element pos
increment(t, pos) ==
  /\ fault = "none" /\ pos \in TreeNodes(World, t)
  /\ \E r \in {Increment(World, t, pos)} :
       Commit(r.w, [op |-> "Increment", t |-> t, key |-> heap[pos].data, node |-> r.node,
                    ok |-> r.node # end(World, t)])

\* --it, it at the element pos or at end(), on a tree that is not empty
decrement(t, pos) ==
  /\ fault = "none" /\ pos \in TreeNodes(World, t) \cup {end(World, t)}
  /\ TreeNodes(World, t) # {}
  /\ \E r \in {Decrement(World, t, pos)} :
       Commit(r.w, [op |-> "Decrement", t |-> t, key |-> heap[pos].data, node |-> r.node,
                    ok |-> r.node # end(World, t)])

\* A set built by inserts and erases and read in between.
InitRead == Init /\ view = "set"

NextRead ==
  \/ \E k \in CopyKeys : set_insert("A", k)
  \/ \E pos \in Nodes : erase("A", pos)
  \/ \E k \in CopyKeys : find("A", k)
  \/ \E k \in CopyKeys : contains("A", k)
  \/ size("A")
  \/ empty("A")
  \/ begin_end("A")
  \/ \E pos \in Nodes : increment("A", pos)
  \/ \E pos \in Nodes : decrement("A", pos)

SpecRead == InitRead /\ [][NextRead]_vars

\* ------------------------------------------------------------ the vector
\* A vector<int> as the record of its members.  data_ is nullptr (null) or
\* points to an array of int (cells); a cell that new[] left unassigned holds
\* UNINIT.  Positions are offsets from data_, the first being 0.
Vec == [data |-> data_, size |-> size_, capacity |-> capacity_, fault |-> fault]

NullArray == [null |-> TRUE, cells |-> <<>>]

\* *(data_ + i) = x
Store(v, i, x) ==
  IF v.fault # "none" THEN v
  ELSE IF v.data.null THEN Fault(v, "nullptr")
  ELSE IF i < 0 \/ i >= Len(v.data.cells) THEN Fault(v, "overflow")
  ELSE [v EXCEPT !.data.cells[i + 1] = x]

\* *(data_ + dst) = *(data_ + src)
Assign(v, dst, src) ==
  IF v.fault # "none" THEN v
  ELSE IF v.data.null THEN Fault(v, "nullptr")
  ELSE IF src < 0 \/ src >= Len(v.data.cells) THEN Fault(v, "overflow")
  ELSE Store(v, dst, v.data.cells[src + 1])

\* reserve(new_capacity); new_capacity never comes near max_size().
Reserve(v, new_capacity) ==
  IF new_capacity <= v.capacity THEN v
  ELSE IF v.size > 0 /\ v.data.null THEN Fault(v, "nullptr")
  ELSE IF v.size > Len(v.data.cells) THEN Fault(v, "overflow")
  ELSE [v EXCEPT !.data = [null |-> FALSE,
                           cells |-> [i \in 1..new_capacity |->
                                        IF i <= v.size THEN v.data.cells[i] ELSE UNINIT]],
                 !.capacity = new_capacity]

\* clear(): capacity_ is not assigned.
VectorClear(v) ==
  [v EXCEPT !.data = IF v.data.null THEN v.data ELSE NullArray, !.size = 0]

PushBack(v, value) ==
  LET r == IF v.size >= v.capacity
           THEN Reserve(v, IF v.capacity = 0 THEN 1 ELSE v.capacity * 2)
           ELSE v
      s == Store(r, r.size, value)
  IN IF s.fault = "none" THEN [s EXCEPT !.size = @ + 1] ELSE s

PopBack(v) == IF v.size > 0 THEN [v EXCEPT !.size = @ - 1] ELSE v

\* for (it = end(); it != new_pos; --it) *it = *(it - 1), it at offset it
RECURSIVE ShiftUp(_, _, _)
ShiftUp(v, it, new_pos) ==
  IF it = new_pos \/ v.fault # "none" THEN v
  ELSE ShiftUp(Assign(v, it, it - 1), it - 1, new_pos)

\* insert(begin() + tmp, value); a position past end() throws.
VectorInsert(v, tmp, value) ==
  IF tmp > v.size THEN v
  ELSE LET r == IF v.size = v.capacity
                THEN Reserve(v, IF v.capacity # 0 THEN v.capacity * 2 ELSE 1)
                ELSE v
           s == Store(ShiftUp(r, r.size, tmp), tmp, value)
       IN IF s.fault = "none" THEN [s EXCEPT !.size = @ + 1] ELSE s

\* for (it = pos; it != end() - 1; ++it) *it = *(it + 1), it at offset it
RECURSIVE ShiftDown(_, _)
ShiftDown(v, it) ==
  IF it = v.size - 1 \/ v.fault # "none" THEN v
  ELSE ShiftDown(Assign(v, it, it + 1), it + 1)

\* erase(data_ + position); a position past end() throws.
VectorErase(v, position) ==
  IF position > v.size THEN v
  ELSE LET s == ShiftDown(v, position)
       IN IF s.fault = "none" THEN [s EXCEPT !.size = @ - 1] ELSE s

\* The step of a completed call on the vector.
CommitVector(v, l) ==
  /\ data_' = v.data
  /\ size_' = v.size
  /\ capacity_' = v.capacity
  /\ fault' = v.fault
  /\ last' = l
  /\ UNCHANGED <<view, heap, root_, null_node_, tree_size_, tree_ptr_, pre>>

\* What was called on the vector: the value and the size_ it was called with
\* (key), the offset of the position (node), and whether it returned.
Called(op, value, position, v) ==
  [op |-> op, t |-> "A", key |-> <<value, size_>>, node |-> position,
   ok |-> v.fault = "none"]

vector_push_back(value) ==
  /\ fault = "none"
  /\ size_ < capacity_ \/ 2 * capacity_ <= MaxCap
  /\ \E v \in {PushBack(Vec, value)} : CommitVector(v, Called("push_back", value, size_, v))

vector_pop_back ==
  /\ fault = "none"
  /\ \E v \in {PopBack(Vec)} : CommitVector(v, Called("pop_back", 0, 0, v))

vector_insert(tmp, value) ==
  /\ fault = "none"
  /\ tmp <= size_
  /\ size_ # capacity_ \/ 2 * capacity_ <= MaxCap
  /\ \E v \in {VectorInsert(Vec, tmp, value)} : CommitVector(v, Called("insert", value, tmp, v))

\* erase at the position of an element
vector_erase(position) ==
  /\ fault = "none"
  /\ position < size_
  /\ \E v \in {VectorErase(Vec, position)} : CommitVector(v, Called("erase", 0, position, v))

vector_reserve(new_capacity) ==
  /\ fault = "none"
  /\ \E v \in {Reserve(Vec, new_capacity)} : CommitVector(v, Called("reserve", 0, new_capacity, v))

vector_clear ==
  /\ fault = "none"
  /\ \E v \in {VectorClear(Vec)} : CommitVector(v, Called("clear", 0, 0, v))

\* A vector<int> built by any sequence of the six calls.
InitVector == Init /\ view = "set"

NextVector ==
  \/ \E value \in Vals : vector_push_back(value)
  \/ vector_pop_back
  \/ \E tmp \in 0..MaxCap, value \in Vals : vector_insert(tmp, value)
  \/ \E position \in 0..MaxCap : vector_erase(position)
  \/ \E new_capacity \in 0..MaxCap : vector_reserve(new_capacity)
  \/ vector_clear

SpecVector == InitVector /\ [][NextVector]_vars

\* ------------------------------------------------- the shape of a tree
Key(w, n) == w.heap[n].data[1]

\* The keys of tree t in in-order.
KeySeq(w, t) == [i \in 1..Len(TreeSeq(w, t)) |-> Key(w, TreeSeq(w, t)[i])]

KeySet(w, t) == {Key(w, n) : n \in TreeNodes(w, t)}

\* Every link met on the way down from the root is a node or the sentinel.
WellFormed(w, t) ==
  /\ w.fault = "none"
  /\ Deref(w.root[t]) /\ Deref(w.null[t])
  /\ \A n \in TreeNodes(w, t) : Deref(w.heap[n].left) /\ Deref(w.heap[n].right)
  /\ Len(TreeSeq(w, t)) = Cardinality(TreeNodes(w, t))

\* Black nodes on every path from n down to the sentinel, the sentinel not
\* counted; -1 when two paths differ.
RECURSIVE BlackHeight(_, _, _, _)
BlackHeight(w, t, n, depth) ==
  IF n = w.null[t] THEN 0
  ELSE IF ~Deref(n) \/ depth = 0 THEN 0 - 1
  ELSE LET l == BlackHeight(w, t, w.heap[n].left, depth - 1)
           r == BlackHeight(w, t, w.heap[n].right, depth - 1)
       IN IF l < 0 \/ r < 0 \/ l # r THEN 0 - 1
          ELSE l + (IF w.heap[n].color = BLACK THEN 1 ELSE 0)

\* The number of ++ steps from begin() to end(); -1 when end() is not reached.
RECURSIVE IterCount(_, _, _, _)
IterCount(w, t, node, fuel) ==
  IF node = w.null[t] THEN 0
  ELSE IF node = TRAP \/ fuel = 0 THEN 0 - 1
  ELSE LET c == IterCount(w, t, GetNextNode(w, t, node), fuel - 1)
       IN IF c < 0 THEN c ELSE c + 1

\* The nodes of the subtree below n, n included.
SubTree(w, t, n) == SeqSet(InOrder(w, t, n, MaxNodes))

\* ------------------------------------------------------------------ claims
\* C1: after any sequence of inserts and erases of present elements the keys
\* in in-order are strictly increasing: every key in a node's left subtree is
\* smaller than the node's, every key in its right subtree is larger, and no
\* key occurs twice.
C1_OrderInvariant ==
  /\ WellFormed(World, "A")
  /\ \A i \in 1..(Len(KeySeq(World, "A")) - 1) :
       KeySeq(World, "A")[i] < KeySeq(World, "A")[i + 1]
  /\ \A n \in TreeNodes(World, "A") :
       /\ \A m \in SubTree(World, "A", heap[n].left) : Key(World, m) < Key(World, n)
       /\ \A m \in SubTree(World, "A", heap[n].right) : Key(World, m) > Key(World, n)

\* An erase of a node with two children has just left a tree of four or more.
C1_Witness ==
  /\ last.op = "Erase" /\ fault = "none"
  /\ pre.heap[last.node].left # pre.null["A"] /\ pre.heap[last.node].right # pre.null["A"]
  /\ tree_size_["A"] >= 4

\* C2: after any sequence of inserts and erases every path from the root down
\* to the sentinel passes through the same number of black nodes.
C2_BlackHeightInvariant ==
  /\ fault = "none"
  /\ BlackHeight(World, "A", root_["A"], MaxNodes) >= 0

\* The erase of a black leaf has just left a tree of black height two or more.
C2_Witness ==
  /\ last.op = "Erase" /\ fault = "none"
  /\ pre.heap[last.node].color = BLACK
  /\ pre.heap[last.node].left = pre.null["A"] /\ pre.heap[last.node].right = pre.null["A"]
  /\ BlackHeight(World, "A", root_["A"], MaxNodes) >= 2

\* C3: after any sequence of inserts and erases no red node is the right child
\* of its parent and no red node has a red parent.
C3_RedInvariant ==
  /\ WellFormed(World, "A")
  /\ \A n \in TreeNodes(World, "A") :
       /\ heap[heap[n].right].color # RED
       /\ heap[n].color = RED => heap[heap[n].left].color # RED
       /\ heap[n].color = RED => n # root_["A"] /\ heap[heap[n].parent].color # RED

\* A tree that holds a red node below the root, left by an erase.
C3_Witness ==
  /\ last.op = "Erase" /\ fault = "none"
  /\ \E n \in TreeNodes(World, "A") :
       heap[n].color = RED /\ heap[n].parent # root_["A"]

\* C4: after every completed insert or erase the tree is empty, its root being
\* the sentinel, or its root is black.
C4_RootInvariant ==
  /\ fault = "none"
  /\ Deref(root_["A"])
  /\ IF TreeNodes(World, "A") = {}
     THEN root_["A"] = null_node_["A"]
     ELSE root_["A"] # null_node_["A"] /\ heap[root_["A"]].color = BLACK

\* An insert has just recoloured or replaced the root: the root is another
\* node than before the call.
C4_Witness ==
  /\ last.op = "Insert" /\ fault = "none" /\ last.ok
  /\ pre.root["A"] # pre.null["A"]
  /\ root_["A"] # pre.root["A"]

\* C5: after any sequence of inserts, erases and clears Size() is the number of
\* nodes reachable from the root, which is the number of elements that
\* iterating from begin() to end() yields, and Empty() holds exactly when that
\* number is 0.
C5_SizeInvariant ==
  /\ fault = "none"
  /\ Size(World, "A") = Cardinality(TreeNodes(World, "A"))
  /\ Size(World, "A") = Len(TreeSeq(World, "A"))
  /\ Size(World, "A") = IterCount(World, "A", begin(World, "A"), Fuel)
  /\ Empty(World, "A") <=> Cardinality(TreeNodes(World, "A")) = 0

\* A clear of a tree of three or more, and an erase that leaves two or more.
C5_Witness ==
  \/ last.op = "Clear" /\ pre.size["A"] >= 3 /\ tree_size_["A"] = 0
  \/ last.op = "Erase" /\ pre.size["A"] >= 3 /\ tree_size_["A"] = pre.size["A"] - 1

\* The invariants of tree t in world w, one by one.
OrderOK(w, t) ==
  /\ WellFormed(w, t)
  /\ \A i \in 1..(Len(KeySeq(w, t)) - 1) : KeySeq(w, t)[i] < KeySeq(w, t)[i + 1]

RedOK(w, t) ==
  \A n \in TreeNodes(w, t) :
    /\ Color(w, Right(w, n)) # RED
    /\ Color(w, n) = RED =>
         Color(w, Left(w, n)) # RED /\ n # w.root[t] /\ Color(w, Parent(w, n)) # RED

BlackHeightOK(w, t) == BlackHeight(w, t, w.root[t], MaxNodes) >= 0

RootOK(w, t) ==
  /\ Deref(w.root[t])
  /\ w.root[t] = w.null[t] \/ Color(w, w.root[t]) = BLACK

SizeOK(w, t) ==
  /\ Size(w, t) = Cardinality(TreeNodes(w, t))
  /\ Size(w, t) = IterCount(w, t, begin(w, t), Fuel)

\* The number of nodes on the longest path from n down to a leaf.
RECURSIVE Height(_, _, _, _)
Height(w, t, n, depth) ==
  IF n = w.null[t] \/ ~Deref(n) \/ depth = 0 THEN 0
  ELSE LET l == Height(w, t, w.heap[n].left, depth - 1)
           r == Height(w, t, w.heap[n].right, depth - 1)
       IN 1 + (IF l > r THEN l ELSE r)

\* The keys met by ++ from node to end(), in the order met.
RECURSIVE IterKeys(_, _, _, _)
IterKeys(w, t, node, fuel) ==
  IF node = w.null[t] \/ ~Deref(node) \/ fuel = 0 THEN <<>>
  ELSE <<Key(w, node)>> \o IterKeys(w, t, GetNextNode(w, t, node), fuel - 1)

\* The entries held by tree t.
DataSet(w, t) == {w.heap[n].data : n \in TreeNodes(w, t)}

\* The nodes got from operator new and not given to delete: the tree code has
\* no delete but that of the sentinel in the destructor, so a node stays in
\* use until no tree object reaches it and its cell is collected.
Allocated(w) == {n \in Nodes : w.heap[n].used}

\* The nodes a tree holds: those reachable from its root, and its sentinel.
Held(w) == UNION {TreeNodes(w, t) \cup {w.null[t]} : t \in Trees}

\* The node reached from n by parent links when there is no parent left; TRAP
\* when the climb leaves the heap or does not end.
RECURSIVE Top(_, _, _)
Top(w, n, fuel) ==
  IF ~Deref(n) \/ fuel = 0 THEN TRAP
  ELSE IF w.heap[n].parent = NULL THEN n
  ELSE Top(w, w.heap[n].parent, fuel - 1)

\* C6: after Erase(pos), pos the position of X, every other element Y of the
\* tree is still held by the node that held it before the call, and that node
\* is still linked in the tree: an iterator taken at Y before the erase still
\* references Y, whichever of the three deletion cases X fell in.
C6_IteratorStable ==
  (last.op = "Erase" /\ fault = "none") =>
    \A y \in TreeNodes(pre, "A") \ {last.node} :
      y \in TreeNodes(World, "A") /\ Key(World, y) = Key(pre, y)

\* C7: after A.Merge(B), A and B distinct sets built by inserts, the keys of A
\* are the union of the keys A and B had, and the keys of B are the keys that A
\* and B had in common.
C7_MergeSemantics ==
  last.op = "Merge" =>
    /\ fault = "none"
    /\ KeySet(World, "A") = KeySet(pre, "A") \cup KeySet(pre, "B")
    /\ KeySet(World, "B") = KeySet(pre, "A") \cap KeySet(pre, "B")

\* C8: after A.Merge(B) has completed, A and B both have strictly increasing
\* in-order keys, no red right child and no red node below a red node, the same
\* black height on every path, a black root, and a Size() that is the number
\* of nodes reachable from the root.
C8_MergeInvariants ==
  last.op = "Merge" =>
    /\ fault = "none"
    /\ \A t \in Trees :
         /\ OrderOK(World, t)
         /\ RedOK(World, t)
         /\ BlackHeightOK(World, t)
         /\ RootOK(World, t)
         /\ SizeOK(World, t)

\* C9: an Insert (set) or InsertMap (map) of a key that the tree holds returns
\* the position of the element held and false, and changes nothing: the size,
\* the keys, the mapped values, the links and the colours are those of before.
C9_DuplicateRejected ==
  (last.op \in {"Insert", "InsertMap"} /\ last.key[1] \in KeySet(pre, "A")) =>
    /\ ~last.ok
    /\ last.node \in TreeNodes(pre, "A") /\ Key(pre, last.node) = last.key[1]
    /\ World = pre

\* A map of two or more has refused a pair whose key it holds with another
\* mapped value.
C9_Witness ==
  /\ last.op = "InsertMap" /\ ~last.ok
  /\ tree_size_["A"] >= 2
  /\ last.node \in TreeNodes(World, "A")
  /\ heap[last.node].data[2] # last.key[2]

\* C10: an Insert of a key k that the set does not hold returns true and the
\* position of a linked node that holds k; afterwards Contains(k) holds, Size()
\* is one more than before and the keys are those of before and k.
C10_InsertAbsent ==
  (last.op = "Insert" /\ last.key[1] \notin KeySet(pre, "A")) =>
    /\ fault = "none"
    /\ last.ok
    /\ last.node \in TreeNodes(World, "A") /\ Key(World, last.node) = last.key[1]
    /\ Contains(World, "A", last.key)
    /\ Size(World, "A") = Size(pre, "A") + 1
    /\ KeySet(World, "A") = KeySet(pre, "A") \cup {last.key[1]}

\* A key has been inserted into a set of three or more, below the root.
C10_Witness ==
  /\ last.op = "Insert" /\ last.ok
  /\ pre.size["A"] >= 3
  /\ last.node # root_["A"]

\* C11: after Erase(Find(k)), in any tree reached by inserts and erases, Find(k)
\* returns end() and Contains(k) is false.
C11_EraseFindRoundTrip ==
  (last.op = "Erase" /\ Find(pre, "A", last.key) = last.node) =>
    /\ fault = "none"
    /\ Find(World, "A", last.key) = end(World, "A")
    /\ FindMap(World, "A", last.key) = end(World, "A")
    /\ ~Contains(World, "A", last.key)

\* The key erased was at a node with two children, so that its data went to
\* another node before the removal.
C11_Witness ==
  /\ last.op = "Erase" /\ Find(pre, "A", last.key) = last.node
  /\ pre.heap[last.node].left # pre.null["A"] /\ pre.heap[last.node].right # pre.null["A"]
  /\ Find(World, "A", last.key) = end(World, "A")
  /\ tree_size_["A"] >= 3

C13_EraseEndNoOp ==
  last.op = "EraseEnd" =>
    /\ fault = "none"
    /\ last.node = null_node_["A"]
    /\ World = pre

\* Erase(end()) was called on a tree of three or more.
C13_Witness ==
  /\ last.op = "EraseEnd" /\ last.node = null_node_["A"]
  /\ tree_size_["A"] >= 3 /\ root_["A"] # null_node_["A"]

\* C14: after an Insert or InsertMap of any key, every node that was linked in
\* the tree before the call is still linked in it and holds the data it held,
\* and end() is the sentinel it was: an iterator taken before the insert still
\* references its element.
C14_InsertKeepsIterators ==
  last.op \in {"Insert", "InsertMap"} =>
    /\ fault = "none"
    /\ end(World, "A") = end(pre, "A")
    /\ \A y \in TreeNodes(pre, "A") :
         y \in TreeNodes(World, "A") /\ heap[y].data = pre.heap[y].data

\* The insert rotated: a node that had a parent before the call has another
\* parent after it.
C14_Witness ==
  /\ last.op \in {"Insert", "InsertMap"} /\ last.ok
  /\ \E y \in TreeNodes(pre, "A") :
       /\ pre.heap[y].parent # NULL
       /\ heap[y].parent # pre.heap[y].parent
       /\ heap[y].data = pre.heap[y].data

\* C15: in any tree reached by inserts and erases, Find(d) is the linked node
\* whose data equals d when the tree holds d and end() otherwise, FindMap(d) is
\* the linked node whose key equals the key of d when the tree holds that key
\* and end() otherwise, and Contains(d) holds exactly when Find(d) is not end().
C15_FindCorrect ==
  /\ fault = "none"
  /\ \A k \in Keys, v \in Vals :
       /\ IF \E n \in TreeNodes(World, "A") : heap[n].data = <<k, v>>
          THEN /\ Find(World, "A", <<k, v>>) \in TreeNodes(World, "A")
               /\ heap[Find(World, "A", <<k, v>>)].data = <<k, v>>
          ELSE Find(World, "A", <<k, v>>) = end(World, "A")
       /\ IF k \in KeySet(World, "A")
          THEN /\ FindMap(World, "A", <<k, v>>) \in TreeNodes(World, "A")
               /\ Key(World, FindMap(World, "A", <<k, v>>)) = k
          ELSE FindMap(World, "A", <<k, v>>) = end(World, "A")
       /\ Contains(World, "A", <<k, v>>) <=> Find(World, "A", <<k, v>>) # end(World, "A")

\* After an erase from a tree of five or more, a key below the root on the
\* right is found and the key erased is not.
C15_Witness ==
  /\ last.op = "Erase" /\ tree_size_["A"] >= 4
  /\ Find(World, "A", last.key) = end(World, "A")
  /\ \E n \in TreeNodes(World, "A") :
       /\ heap[n].parent # NULL /\ heap[heap[n].parent].right = n
       /\ Find(World, "A", heap[n].data) = n

\* C16: in any tree reached by inserts and erases, begin() is the node that
\* holds the smallest key, end() is the sentinel, and begin() = end() exactly
\* when the tree is empty.
C16_BeginEnd ==
  /\ fault = "none"
  /\ end(World, "A") = null_node_["A"]
  /\ begin(World, "A") = end(World, "A") <=> TreeNodes(World, "A") = {}
  /\ TreeNodes(World, "A") # {} =>
       /\ begin(World, "A") \in TreeNodes(World, "A")
       /\ \A n \in TreeNodes(World, "A") : Key(World, begin(World, "A")) <= Key(World, n)

\* The smallest element of a tree of four or more was erased, and begin() is
\* a node below the root.
C16_Witness ==
  /\ last.op = "Erase" /\ last.key = pre.heap[begin(pre, "A")].data
  /\ tree_size_["A"] >= 3
  /\ begin(World, "A") # root_["A"] /\ begin(World, "A") # end(World, "A")

\* C17: in any tree reached by inserts and erases, ++ at a node moves to the
\* node that holds the next larger key, ++ at the node of the largest key
\* gives end(), and so the walk from begin() visits the keys in ascending
\* order and reaches end() after exactly Size() increments.
C17_Successor ==
  /\ fault = "none"
  /\ \A i \in 1..Len(TreeSeq(World, "A")) :
       GetNextNode(World, "A", TreeSeq(World, "A")[i])
         = IF i < Len(TreeSeq(World, "A")) THEN TreeSeq(World, "A")[i + 1] ELSE end(World, "A")
  /\ \A n \in TreeNodes(World, "A") :
       GetNextNode(World, "A", n) # end(World, "A") =>
         /\ Key(World, GetNextNode(World, "A", n)) > Key(World, n)
         /\ \A m \in TreeNodes(World, "A") :
              Key(World, m) > Key(World, n) => Key(World, m) >= Key(World, GetNextNode(World, "A", n))
  /\ IterCount(World, "A", begin(World, "A"), Fuel) = Size(World, "A")

\* After an erase there is a right child without a right subtree whose
\* successor is above its parent: the climb of GetNextNode runs.
C17_Witness ==
  /\ last.op = "Erase"
  /\ \E n \in TreeNodes(World, "A") :
       /\ heap[n].right = null_node_["A"]
       /\ heap[n].parent # NULL /\ heap[heap[n].parent].right = n
       /\ GetNextNode(World, "A", n) \in TreeNodes(World, "A")
       /\ GetNextNode(World, "A", n) # heap[n].parent

\* C18: -- at end() gives the node that holds the largest key of a non-empty
\* tree, -- at any other node gives the node of the next smaller key, -- at
\* the node of the smallest key gives the sentinel, and for every position p
\* but the largest, -- after ++ comes back to p.
C18_Predecessor ==
  /\ fault = "none"
  /\ TreeNodes(World, "A") # {} =>
       GetPrevNode(World, "A", end(World, "A")) = TreeSeq(World, "A")[Len(TreeSeq(World, "A"))]
  /\ \A i \in 1..Len(TreeSeq(World, "A")) :
       GetPrevNode(World, "A", TreeSeq(World, "A")[i])
         = IF i > 1 THEN TreeSeq(World, "A")[i - 1] ELSE end(World, "A")
  /\ \A i \in 1..(Len(TreeSeq(World, "A")) - 1) :
       GetPrevNode(World, "A", GetNextNode(World, "A", TreeSeq(World, "A")[i]))
         = TreeSeq(World, "A")[i]

\* After an erase the largest key is held below the root, and there is a left
\* child without a left subtree whose predecessor is above its parent: the
\* climb of GetPrevNode runs.
C18_Witness ==
  /\ last.op = "Erase"
  /\ GetPrevNode(World, "A", end(World, "A")) \in TreeNodes(World, "A") \ {root_["A"]}
  /\ \E n \in TreeNodes(World, "A") :
       /\ heap[n].left = null_node_["A"]
       /\ heap[n].parent # NULL /\ heap[heap[n].parent].left = n
       /\ GetPrevNode(World, "A", n) \in TreeNodes(World, "A")

\* C19: Clear() leaves the tree as a constructor leaves it: root_ is the
\* sentinel, which is black, Size() is 0, Empty() holds, begin() = end(), no
\* element is contained, and the tree is in every field the tree of a newly
\* constructed container, so that whatever is called next does what it does on
\* a new container.
C19_ClearResets ==
  last.op = "Clear" =>
    /\ fault = "none"
    /\ root_["A"] = null_node_["A"]
    /\ heap[null_node_["A"]].color = BLACK
    /\ Size(World, "A") = 0
    /\ Empty(World, "A")
    /\ begin(World, "A") = end(World, "A")
    /\ \A k \in Keys, v \in Vals :
         /\ ~Contains(World, "A", <<k, v>>)
         /\ FindMap(World, "A", <<k, v>>) = end(World, "A")
         /\ Insert(World, "A", <<k, v>>) = Insert(Constructed, "A", <<k, v>>)
         /\ InsertMap(World, "A", <<k, v>>) = InsertMap(Constructed, "A", <<k, v>>)
    /\ World = Constructed

\* Clear() was called on a tree of four or more, of black height two.
C19_Witness ==
  /\ last.op = "Clear" /\ pre.size["A"] >= 4
  /\ BlackHeight(pre, "A", pre.root["A"], MaxNodes) >= 2
  /\ root_["A"] = null_node_["A"]

\* C20: A.Swap(B) exchanges root_, null_node_ and tree_size_: afterwards A has
\* the elements and the size B had and B those A had, no node's data, colour
\* or link has changed, and a second swap gives back the two trees as they
\* were.
C20_SwapExchanges ==
  last.op = "Swap" =>
    /\ fault = "none"
    /\ heap = pre.heap
    /\ root_["A"] = pre.root["B"] /\ root_["B"] = pre.root["A"]
    /\ null_node_["A"] = pre.null["B"] /\ null_node_["B"] = pre.null["A"]
    /\ Size(World, "A") = Size(pre, "B") /\ Size(World, "B") = Size(pre, "A")
    /\ TreeSeq(World, "A") = TreeSeq(pre, "B") /\ TreeSeq(World, "B") = TreeSeq(pre, "A")
    /\ KeySeq(World, "A") = KeySeq(pre, "B") /\ KeySeq(World, "B") = KeySeq(pre, "A")
    /\ Swap(World, "A", "B") = pre

\* Two sets of different sizes and different keys were swapped.
C20_Witness ==
  /\ last.op = "Swap"
  /\ pre.size["A"] >= 3 /\ pre.size["B"] >= 1 /\ pre.size["A"] # pre.size["B"]
  /\ KeySet(World, "A") = KeySet(pre, "B") /\ KeySet(World, "A") # KeySet(World, "B")

\* C21: copy construction and copy assignment are deep.  After B is made a
\* copy of A the call has completed, B has the key sequence and the size of A,
\* B satisfies the tree invariants, A is as it was before the call, node for
\* node, and no node or sentinel belongs to both; and an insert or erase on
\* one tree leaves the other with the nodes, the keys and the size it had.
C21_DeepCopy ==
  /\ last.op \in {"CopyAssign", "CopyConstruct"} =>
       /\ fault = "none"
       /\ KeySeq(World, "B") = KeySeq(pre, "A")
       /\ Size(World, "B") = Size(pre, "A")
       /\ OrderOK(World, "B") /\ RedOK(World, "B") /\ BlackHeightOK(World, "B")
       /\ RootOK(World, "B") /\ SizeOK(World, "B")
       /\ TreeSeq(World, "A") = TreeSeq(pre, "A")
       /\ \A n \in TreeNodes(pre, "A") : heap[n] = pre.heap[n]
       /\ root_["A"] = pre.root["A"] /\ null_node_["A"] = pre.null["A"]
       /\ Size(World, "A") = Size(pre, "A")
       /\ TreeNodes(World, "A") \cap TreeNodes(World, "B") = {}
       /\ null_node_["A"] # null_node_["B"]
  /\ last.op \in {"Insert", "Erase"} =>
       \A o \in Trees \ {last.t} :
         /\ TreeSeq(World, o) = TreeSeq(pre, o)
         /\ KeySeq(World, o) = KeySeq(pre, o)
         /\ Size(World, o) = Size(pre, o)

\* C22: move construction transfers root, sentinel and count.  After the tree
\* B is move-constructed from A, and after the set b is move-constructed from
\* the set a, the destination holds exactly the nodes, keys and size the
\* source had, and the source is empty: its Size() is 0 and no element is
\* reachable from it.
C22_MoveTransfers ==
  /\ last.op = "MoveConstruct" =>
       /\ fault = "none"
       /\ root_["B"] = pre.root["A"] /\ null_node_["B"] = pre.null["A"]
       /\ TreeSeq(World, "B") = TreeSeq(pre, "A")
       /\ \A n \in TreeNodes(pre, "A") : heap[n] = pre.heap[n]
       /\ Size(World, "B") = Size(pre, "A")
       /\ Size(World, "A") = 0 /\ TreeNodes(World, "A") = {}
  /\ last.op = "SetMove" =>
       /\ fault = "none"
       /\ TreeSeq(World, tree_ptr_["b"]) = TreeSeq(pre, "A")
       /\ Size(World, tree_ptr_["b"]) = Size(pre, "A")
       /\ Size(World, tree_ptr_["a"]) = 0 /\ TreeNodes(World, tree_ptr_["a"]) = {}

\* C23: inserting the keys 1, 2, ..., 7 in ascending order into an empty tree
\* gives a tree of height at most 4 whose in-order traversal is 1, 2, ..., 7.
\* On the way there, after the n-th insert, the traversal is 1, ..., n.
C23_AscendingInserts ==
  /\ fault = "none"
  /\ KeySeq(World, "A") = [i \in 1..Size(World, "A") |-> i]
  /\ Size(World, "A") = 7 =>
       /\ KeySeq(World, "A") = <<1, 2, 3, 4, 5, 6, 7>>
       /\ Height(World, "A", root_["A"], MaxNodes) <= 4

C23_Witness ==
  /\ last.op \in {"Insert", "InsertMap"} /\ last.ok /\ last.key[1] = 7
  /\ KeySeq(pre, "A") = <<1, 2, 3, 4, 5, 6>>
  /\ Size(World, "A") = 7
  /\ Height(World, "A", root_["A"], MaxNodes) >= 3

\* C24: map::at(key) throws out_of_range when no entry has the key and leaves
\* the map as it was, every node and the size; when the key is present it
\* returns a reference to the mapped value of the entry with that key, and the
\* map is as it was as well.
C24_AtChecked ==
  last.op = "At" =>
    /\ fault = "none"
    /\ World = pre
    /\ last.key[1] \notin KeySet(pre, "A") => ~last.ok
    /\ last.key[1] \in KeySet(pre, "A") =>
         /\ last.ok
         /\ last.node \in TreeNodes(World, "A")
         /\ Key(World, last.node) = last.key[1]

\* at has thrown on a map that holds two other keys, one of them with a mapped
\* value that is not the default one of the probe pair.
C24_Witness ==
  /\ last.op = "At" /\ ~last.ok /\ tree_size_["A"] >= 2
  /\ \E n \in TreeNodes(World, "A") : heap[n].data[2] # 0

\* C25: map::operator[](key) on a missing key inserts exactly one entry, the
\* key with the default mapped value, the other entries staying, the size one
\* more, and returns a reference to the value of the new entry; on a present
\* key it returns a reference to the value of the entry held and the map is as
\* it was.
C25_IndexInsertsDefault ==
  last.op = "Index" =>
    /\ fault = "none"
    /\ last.key[1] \notin KeySet(pre, "A") =>
         /\ last.ok
         /\ Size(World, "A") = Size(pre, "A") + 1
         /\ DataSet(World, "A") = DataSet(pre, "A") \cup {<<last.key[1], 0>>}
         /\ Cardinality(TreeNodes(World, "A")) = Cardinality(TreeNodes(pre, "A")) + 1
         /\ last.node \in TreeNodes(World, "A") /\ ~pre.heap[last.node].used
         /\ heap[last.node].data = <<last.key[1], 0>>
    /\ last.key[1] \in KeySet(pre, "A") =>
         /\ ~last.ok
         /\ World = pre
         /\ last.node \in TreeNodes(World, "A")
         /\ Key(World, last.node) = last.key[1]

\* operator[] has inserted the last key missing, into a map with a mapped
\* value that is not the default one.
C25_Witness ==
  /\ last.op = "Index" /\ last.ok /\ tree_size_["A"] = MaxMapKey
  /\ \E n \in TreeNodes(World, "A") : heap[n].data[2] # 0

\* C26: map entries are ordered and identified by key only.  In the map view,
\* after any sequence of insert, insert_or_assign, operator[], assignment
\* through operator[] and erase, no two entries share a key, the keys met by
\* iteration from begin() are strictly increasing, and they are all the
\* entries held.
C26_MapKeyOnly ==
  view = "map" =>
    /\ fault = "none"
    /\ \A n, m \in TreeNodes(World, "A") : Key(World, n) = Key(World, m) => n = m
    /\ \A i, j \in 1..Len(IterKeys(World, "A", begin(World, "A"), Fuel)) :
         i < j => IterKeys(World, "A", begin(World, "A"), Fuel)[i]
                    < IterKeys(World, "A", begin(World, "A"), Fuel)[j]
    /\ Len(IterKeys(World, "A", begin(World, "A"), Fuel)) = Size(World, "A")
    /\ last.op \in {"IndexAssign", "InsertOrAssign"} =>
         /\ last.node \in TreeNodes(World, "A")
         /\ heap[last.node].data = last.key
         /\ KeySet(World, "A") = KeySet(pre, "A") \cup {last.key[1]}
         /\ Size(World, "A") = Size(pre, "A") + (IF last.ok THEN 1 ELSE 0)

\* An assignment has changed the mapped value of an entry held, in a map whose
\* mapped values are in the other order than its keys.
C26_Witness ==
  /\ last.op \in {"IndexAssign", "InsertOrAssign"} /\ ~last.ok
  /\ pre.heap[last.node].data[2] # heap[last.node].data[2]
  /\ tree_size_["A"] = MaxMapKey
  /\ \E n, m \in TreeNodes(World, "A") :
       Key(World, n) < Key(World, m) /\ heap[n].data[2] > heap[m].data[2]

\* C27: the sentinel is never altered by tree operations.  In every state
\* reached by Insert, Erase and Merge the call has completed, the sentinel of
\* each tree is black with null left and right links, a call that keeps the
\* sentinel leaves its colour and these links as they were, and every child
\* link of a linked node is a node or the sentinel, never null.
C27_SentinelIntact ==
  /\ fault = "none"
  /\ \A t \in Trees :
       /\ Deref(null_node_[t])
       /\ heap[null_node_[t]].color = BLACK
       /\ heap[null_node_[t]].left = NULL /\ heap[null_node_[t]].right = NULL
       /\ \A n \in TreeNodes(World, t) : Deref(heap[n].left) /\ Deref(heap[n].right)
  /\ last.op \in {"Insert", "InsertMap", "Erase", "EraseEnd", "Merge"} =>
       \A t \in Trees :
         /\ null_node_[t] = pre.null[t]
         /\ heap[null_node_[t]].color = pre.heap[null_node_[t]].color
         /\ heap[null_node_[t]].left = pre.heap[null_node_[t]].left
         /\ heap[null_node_[t]].right = pre.heap[null_node_[t]].right

C29_MergeTransplants ==
  last.op = "Merge" =>
    /\ fault = "none"
    /\ \A n \in TreeNodes(pre, "B") :
         IF Key(pre, n) \notin KeySet(pre, "A")
         THEN n \in TreeNodes(World, "A") /\ heap[n].data = pre.heap[n].data
         ELSE n \in TreeNodes(World, "B") /\ heap[n].data = pre.heap[n].data
    /\ \A n \in Nodes : heap[n].used => pre.heap[n].used

\* C30: in every Erase of a present element the node that RemoveLeaf unlinks
\* has both links at the sentinel when RemoveLeaf is called, that is in the
\* world BalanceTreeBeforeRemoving leaves; the nodes reachable from the root
\* afterwards are those of before but that one node, so no other node is lost;
\* and the count is one less.
C30_DetachedIsLeaf ==
  last.op = "Erase" =>
    LET b == BalanceTreeBeforeRemoving(pre, "A", last.node)
    IN /\ fault = "none" /\ b.w.fault = "none"
       /\ b.ret \in TreeNodes(b.w, "A")
       /\ b.w.heap[b.ret].left = b.w.null["A"] /\ b.w.heap[b.ret].right = b.w.null["A"]
       /\ TreeNodes(b.w, "A") = TreeNodes(pre, "A")
       /\ TreeNodes(World, "A") = TreeNodes(pre, "A") \ {b.ret}
       /\ Cardinality(TreeNodes(World, "A")) = Cardinality(TreeNodes(pre, "A")) - 1
       /\ Size(World, "A") = Size(pre, "A") - 1

\* A node with two children was erased from a tree of four or more, and the
\* node unlinked was another one, black before the balancing.
C30_Witness ==
  /\ last.op = "Erase" /\ pre.size["A"] >= 4
  /\ pre.heap[last.node].left # pre.null["A"] /\ pre.heap[last.node].right # pre.null["A"]
  /\ BalanceTreeBeforeRemoving(pre, "A", last.node).ret # last.node
  /\ pre.heap[BalanceTreeBeforeRemoving(pre, "A", last.node).ret].color = BLACK

C32_RemovedReleased ==
  /\ last.op = "Erase" =>
       Allocated(Erase(pre, "A", last.node)) = Held(Erase(pre, "A", last.node))
  /\ last.op = "Clear" =>
       Allocated(Clear(pre, "A")) = Held(Clear(pre, "A"))

\* C33: map::insert_or_assign(key, obj).  When no entry has the key, the
\* entry (key, obj) is inserted in a new node, the other entries stay, the
\* size is one more and the result is (iterator to the new entry, true).  When
\* an entry has the key, the mapped value of that entry becomes obj and
\* nothing else changes, no other node and no link, colour, root or size, and
\* the result is (iterator to the entry, false).
C33_InsertOrAssign ==
  last.op = "InsertOrAssign" =>
    /\ fault = "none"
    /\ last.key[1] \notin KeySet(pre, "A") =>
         /\ last.ok
         /\ Size(World, "A") = Size(pre, "A") + 1
         /\ DataSet(World, "A") = DataSet(pre, "A") \cup {last.key}
         /\ last.node \in TreeNodes(World, "A") /\ ~pre.heap[last.node].used
         /\ heap[last.node].data = last.key
    /\ last.key[1] \in KeySet(pre, "A") =>
         /\ ~last.ok
         /\ last.node \in TreeNodes(pre, "A") /\ Key(pre, last.node) = last.key[1]
         /\ heap = [pre.heap EXCEPT ![last.node].data = last.key]
         /\ root_ = pre.root /\ null_node_ = pre.null /\ tree_size_ = pre.size

\* The mapped value of an entry of a full map was replaced by another one.
C33_Witness ==
  /\ last.op = "InsertOrAssign" /\ ~last.ok /\ tree_size_["A"] = MaxMapKey
  /\ pre.heap[last.node].data[2] # last.key[2]
  /\ heap[last.node].data = last.key

\* C34: parent and child links agree.  After every Insert and Erase the
\* parent link of the root is null; every child of a reachable node that is
\* not the sentinel has that node as its parent; every reachable node is met
\* once on the way down from the root; and the parent links climbed from any
\* reachable node end at the root.
C34_LinksAgree ==
  /\ fault = "none"
  /\ root_["A"] # null_node_["A"] => heap[root_["A"]].parent = NULL
  /\ \A n \in TreeNodes(World, "A") :
       /\ heap[n].left # null_node_["A"] =>
            Deref(heap[n].left) /\ heap[heap[n].left].parent = n
       /\ heap[n].right # null_node_["A"] =>
            Deref(heap[n].right) /\ heap[heap[n].right].parent = n
       /\ Top(World, n, MaxNodes) = root_["A"]
  /\ Len(TreeSeq(World, "A")) = Cardinality(TreeNodes(World, "A"))
  /\ Len(TreeSeq(World, "A")) = Size(World, "A")

\* An erase in a tree of five or more has left a tree whose root is another
\* node than before.
C34_Witness ==
  /\ last.op = "Erase" /\ fault = "none" /\ pre.size["A"] >= 5
  /\ root_["A"] # pre.root["A"]
  /\ heap[root_["A"]].left # null_node_["A"] /\ heap[root_["A"]].right # null_node_["A"]

\* What a rotation at node owes, w the world before and x the world after,
\* top the child that goes up and moved the subtree that changes sides: the
\* nodes are met in the same in-order, the link that led to node, or root_,
\* leads to top, top has node's parent and node's colour of before, node is
\* red and below top, and moved, when it is not the sentinel, has node as
\* its parent.
Rotated(w, x, node, top, moved) ==
  /\ x.fault = "none"
  /\ TreeSeq(x, "A") = TreeSeq(w, "A")
  /\ KeySeq(x, "A") = KeySeq(w, "A")
  /\ IF w.heap[node].parent = NULL THEN x.root["A"] = top
     ELSE /\ x.root["A"] = w.root["A"]
          /\ w.heap[w.heap[node].parent].left = node => x.heap[w.heap[node].parent].left = top
          /\ w.heap[w.heap[node].parent].left # node => x.heap[w.heap[node].parent].right = top
  /\ x.heap[top].parent = w.heap[node].parent
  /\ x.heap[top].color = w.heap[node].color
  /\ x.heap[node].color = RED
  /\ x.heap[node].parent = top
  /\ moved # w.null["A"] => x.heap[moved].parent = node
  /\ \A n \in TreeNodes(x, "A") :
       /\ x.heap[n].left # x.null["A"] => x.heap[x.heap[n].left].parent = n
       /\ x.heap[n].right # x.null["A"] => x.heap[x.heap[n].right].parent = n

\* The worlds rotations are tried in: the one at hand and, after an
\* insertion, the one FixTree was called in.
RotationWorlds ==
  {World} \cup (IF last.op \in {"Insert", "InsertMap"} /\ last.ok
                THEN {LinkNode(pre, "A", last.key)} ELSE {})

\* C36: RotateLeft and RotateRight keep the in-order key sequence of the whole
\* tree, make the former parent's child link, or root_, reference the new top
\* of the subtree, give the new top the old top's colour and make the demoted
\* node red, and keep the parent link of the subtree moved at its new parent.
\* Tried at every node with a right (left) child, in every tree at hand and in
\* every tree as it is when FixTree starts.
C36_RotationsPreserve ==
  \A w \in RotationWorlds :
    \A n \in TreeNodes(w, "A") :
      /\ w.heap[n].right # w.null["A"] =>
           /\ Rotated(w, RotateLeft(w, "A", n), n, w.heap[n].right,
                          w.heap[w.heap[n].right].left)
           /\ RotateLeft(w, "A", n).heap[w.heap[n].right].left = n
           /\ RotateLeft(w, "A", n).heap[n].right = w.heap[w.heap[n].right].left
           /\ RotateLeftRet(w, n) = w.heap[n].right
      /\ w.heap[n].left # w.null["A"] =>
           /\ Rotated(w, RotateRight(w, "A", n), n, w.heap[n].left,
                          w.heap[w.heap[n].left].right)
           /\ RotateRight(w, "A", n).heap[w.heap[n].left].right = n
           /\ RotateRight(w, "A", n).heap[n].left = w.heap[w.heap[n].left].right
           /\ RotateRightRet(w, n) = w.heap[n].left

\* A tree whose root has a right child with a left subtree, which a left
\* rotation at the root moves, and a black root that the rotation makes red.
C36_Witness ==
  /\ fault = "none" /\ tree_size_["A"] >= 5
  /\ heap[root_["A"]].right # null_node_["A"]
  /\ heap[heap[root_["A"]].right].left # null_node_["A"]
  /\ heap[root_["A"]].color = BLACK
  /\ RotateLeft(World, "A", root_["A"]).root["A"] = heap[root_["A"]].right

\* C35: after any sequence of push_back, pop_back, insert, erase, reserve and
\* clear on a vector, every call has returned, size_ <= capacity_, and data_
\* points to an array of capacity_ elements whenever capacity_ > 0; a
\* push_back or an insert that has returned has stored its value at its
\* position in that array and has raised size_ by one.
C35_StorageInvariant ==
  /\ fault = "none"
  /\ size_ <= capacity_
  /\ capacity_ > 0 => ~data_.null /\ Len(data_.cells) = capacity_
  /\ last.op \in {"push_back", "insert"} =>
       /\ size_ = last.key[2] + 1
       /\ ~data_.null
       /\ data_.cells[last.node + 1] = last.key[1]

====
